---- MODULE Spec2Model ----
(***************************************************************************)
(* Model of the collab-orchestrator team handler of teal-agents:           *)
(* TeamHandler.invoke (team_handler/team_handler.py), the manager          *)
(* delegation round loop, together with TeamHandler._execute_task and      *)
(* TaskExecutor.execute_task_sse (team_handler/task_executor.py), which    *)
(* the loop drives for every ASSIGN_NEW_TASK action.                       *)
(*                                                                         *)
(* invoke is an async generator.  Every `yield` appends one event to       *)
(* `events`; `pc` is the position at which the generator is suspended.     *)
(* The manager call and the agent call each run as an asyncio task beside  *)
(* a heartbeat task that puts keepalive messages on a queue.               *)
(***************************************************************************)
EXTENDS Integers, Sequences, FiniteSets, TLC

\* ----------------------------------------------------------------- bounds
\* largest max_rounds a TeamSpec is given in the model
MaxRounds == 2
\* heartbeat periods (30 s sleeps) that elapse during one run
MaxBeats == 1

\* ----------------------------------------------------------- input values
TaskIds == {"task1", "task2"}
\* TaskExecutor.agents holds the registered "name:version" keys
RegisteredAgents == {"agentA:1.0"}
AgentNames == RegisteredAgents \cup {"ghost:0.1"}
\* output_raw values an agent may return
Results == {"r1", "r2"}
\* content a PROVIDE_RESULT action may carry (never read by invoke)
Contents == {"Final solution"}
AbortReasons == {"cannot fulfil", "no agent fits"}
\* str(e) of an exception raised by a remote call
ExcMessages == {"timeout", "exploded"}
\* a response body InvokeResponse.model_validate rejects
InvalidResponse == "not an InvokeResponse"
NoValue == "none"

Actions == {"ASSIGN_NEW_TASK", "PROVIDE_RESULT", "ABORT"}
\* a next_action value outside the Action enum handled by the match
UnknownAction == "UNKNOWN"

VARIABLES
    max_rounds,              \* self.max_rounds
    round_no,                \* round_no
    pc,                      \* where the generator invoke is suspended
    events,                  \* everything yielded to the consumer, in order
    conversation,            \* conversation.messages
    manager_output,          \* result of the last manager call
    determine_action_task,   \* state of the asyncio task of the manager call
    manager_keepalive_task,  \* state of run_keepalive()
    manager_keepalive_queue, \* messages waiting in manager_keepalive_queue
    perform_task,            \* state of the asyncio task of the agent call
    keepalive_task,          \* state of keepalive_coroutine()
    keepalive_queue,         \* messages waiting in keepalive_queue
    task_result,             \* task_result of execute_task_sse
    propagated,              \* an exception left invoke towards the consumer
    manager_calls,           \* calls of determine_next_action so far
    executor_calls,          \* calls of execute_task_sse so far
    beats,                   \* heartbeat periods elapsed so far
    \* AgentGateway.invoke_agent
    gw_pc,                   \* where the coroutine invoke_agent is
    attempt,                 \* attempt
    last_exception,          \* last_exception
    posts,                   \* outcome of every client.post so far, in order
    sleeps,                  \* asyncio.sleep(1) calls so far
    gw_result,               \* what invoke_agent returned or raised
    \* PlanningHandler.invoke and the PendingPlanStore, for one request id
    enable_hitl,             \* self.enable_hitl
    pending_plans,           \* the entry the store holds for the request id
    invocation,              \* the initial and the resume call of invoke
    plan_events,             \* everything the two calls yielded, in order
    store_calls,             \* calls of the store made by each call
    resume_signal,           \* the resume told the waiting call to stop
    \* Conversation.get_prerequisites_for_task
    items,                   \* conversation.items
    parent_ids,              \* the parent ids asked for
    prerequisites,           \* the list returned, or NotCalled
    \* RemotePlugin(**kwargs)
    kwargs,                  \* the keyword arguments of the constructor
    plugin,                  \* the outcome of the constructor
    \* Config.get_agent_mcp_servers
    spec_mcp_servers,        \* self.config.spec.mcp_servers
    spec_agents,             \* self.config.spec.agents
    for_agent,               \* the argument agent_name
    merged,                  \* what get_agent_mcp_servers returned
    \* SimplifiedMCPClient
    mcp_max_retries,         \* server_config.max_retries
    graceful_degradation,    \* server_config.graceful_degradation
    session,                 \* self.session: 0 for None, else the connection
    connection_context,      \* self.connection_context: 0 for None
    initialized,             \* self._initialized
    connection_attempts,     \* self._connection_attempts
    last_error,              \* self._last_error
    mcp_last_exception,      \* last_exception of initialize
    client_pc,               \* where the running call of the client is
    caller,                  \* the call that runs initialize
    client_result,           \* how the last call of the client ended
    entered_contexts,        \* connection contexts entered and not exited
    entered_sessions,        \* ClientSessions entered and not exited
    contexts_created,        \* connection contexts created so far
    client_calls             \* calls of the client so far

\* the state of TeamHandler.invoke and TaskExecutor.execute_task_sse
handlerVars == <<max_rounds, round_no, pc, events, conversation,
                 manager_output, determine_action_task,
                 manager_keepalive_task, manager_keepalive_queue,
                 perform_task, keepalive_task, keepalive_queue, task_result,
                 propagated, manager_calls, executor_calls, beats>>
\* the state of AgentGateway.invoke_agent
gatewayVars == <<gw_pc, attempt, last_exception, posts, sleeps, gw_result>>
\* the state TeamHandler.invoke and execute_task_sse never touch
\* the state of PlanningHandler.invoke and of the PendingPlanStore
planningVars == <<enable_hitl, pending_plans, invocation, plan_events,
                  store_calls, resume_signal>>
\* the state of one call of Conversation.get_prerequisites_for_task
prerequisiteVars == <<items, parent_ids, prerequisites>>
\* the state of one construction of a RemotePlugin
pluginVars == <<kwargs, plugin>>
\* the state of one call of Config.get_agent_mcp_servers
configVars == <<spec_mcp_servers, spec_agents, for_agent, merged>>
\* the state of the components of sk_agents
\* the state of one SimplifiedMCPClient
clientVars == <<mcp_max_retries, graceful_degradation, session,
                connection_context, initialized, connection_attempts,
                last_error, mcp_last_exception, client_pc, caller,
                client_result, entered_contexts, entered_sessions,
                contexts_created, client_calls>>
skVars == <<pluginVars, configVars, clientVars>>
otherVars == <<gatewayVars, planningVars, prerequisiteVars, skVars>>

vars == <<handlerVars, otherVars>>

managerVars == <<manager_output, determine_action_task,
                 manager_keepalive_task, manager_keepalive_queue>>
taskVars == <<perform_task, keepalive_task, keepalive_queue, task_result>>

\* ------------------------------------------------------------------ events
\* new_event_response(event_type, payload): the event type, the class of the
\* payload and the payload fields the handlers set.  `origin` is the
\* generator that built the event, `round` the value of round_no then.
NewEvent(type, payload, origin, status, prefix, detail, task) ==
    [round |-> round_no, type |-> type, payload |-> payload,
     origin |-> origin, status_code |-> status, prefix |-> prefix,
     detail |-> detail, task_id |-> task]

Emit(e) == events' = Append(events, e)

\* the keepalive string both heartbeat loops forward
KeepaliveEvent(origin) ==
    NewEvent("keepalive", "KeepaliveMessage", origin, 0, "", NoValue, NoValue)

\* ------------------------------------------------------------ manager data
NoOutput ==
    [next_action |-> NoValue, task_id |-> NoValue, agent_name |-> NoValue,
     result_task_id |-> NoValue, content |-> NoValue,
     abort_reason |-> NoValue]

\* every ManagerOutput determine_next_action may return
ManagerOutputs ==
    {[NoOutput EXCEPT !.next_action = "ASSIGN_NEW_TASK", !.task_id = t,
                      !.agent_name = a] : t \in TaskIds, a \in AgentNames}
    \cup {[NoOutput EXCEPT !.next_action = "PROVIDE_RESULT",
                           !.result_task_id = t, !.content = c] :
              t \in TaskIds, c \in Contents}
    \cup {[NoOutput EXCEPT !.next_action = "ABORT", !.abort_reason = r] :
              r \in AbortReasons}
    \cup {[NoOutput EXCEPT !.next_action = UnknownAction]}

\* an asyncio task: not created, pending, finished with a value, or with an
\* exception
NoTask == [state |-> "none", value |-> NoValue]
PendingTask == [state |-> "pending", value |-> NoValue]

\* ------------------------------------------------------------ conversation
\* conversation.get_message_by_task_id(task_id): the position of the first
\* message of that task, 0 for None
GetMessageByTaskId(msgs, task_id) ==
    IF \E i \in 1..Len(msgs) : msgs[i].task_id = task_id
    THEN CHOOSE i \in 1..Len(msgs) :
             /\ msgs[i].task_id = task_id
             /\ \A j \in 1..(i - 1) : msgs[j].task_id # task_id
    ELSE 0

\* conversation.add_item(task_id, agent_name, instructions, result)
AddItem(msgs, task_id, agent_name, result) ==
    Append(msgs, [task_id |-> task_id, agent_name |-> agent_name,
                  result |-> result])

\* ------------------------------------------------------------ the gateway
\* max_retries = 3
max_retries == 3
\* MCPServerConfig.max_retries: Field(default=3)
default_max_retries == 3
\* last_exception = None
None == "None"
\* httpx.TimeoutException and its subclasses, caught by the first handler
TimeoutExceptions == {"ReadTimeout", "ConnectTimeout"}
\* what `except Exception` catches: transport errors, raise_for_status()
OtherExceptions == {"ConnectError", "HTTPStatusError"}
\* the bodies response.json() may return
ResponseBodies == {"body1", "body2"}
\* raise ... TimeoutError("Max retries exceeded")
MaxRetriesExceeded == "TimeoutError: Max retries exceeded"

\* invoke_agent has not been called
GatewayIdle ==
    /\ gw_pc = "idle"
    /\ attempt = 0
    /\ last_exception = None
    /\ posts = <<>>
    /\ sleeps = 0
    /\ gw_result = [kind |-> "none", value |-> NoValue]

\* ------------------------------------------------------- planning, HITL
\* the two calls of invoke made for one request id
Invocations == {"initial", "resume"}
\* the plans (sequences of step ids) PlanManager may generate
GeneratedPlans == {<<"s1">>, <<"s1", "s2">>}
\* the plans a user may submit with an EDIT
EditedPlans == {<<"e1">>, <<"s2", "e1">>}
NoPlan == <<>>
HitlResumeTypes == {"APPROVE", "EDIT", "CANCEL"}
\* the exceptions PlanManager.generate_plan may raise
PlanningFailures ==
    [type : {"PlanningFailedException", "Exception"},
     message : {"Test planning failure", "no agent can do this"}]
\* generate_plan has not raised
NoFailure == [type |-> NoValue, message |-> NoValue]
\* f"Planning failed: {e}"
PlanningFailedMessage(message) ==
    CASE message = "Test planning failure" ->
             "Planning failed: Test planning failure"
      [] message = "no agent can do this" ->
             "Planning failed: no agent can do this"
\* a call of invoke that has not been made
IdleInvocation ==
    [pc |-> "idle", plan |-> NoPlan, step |-> 0, should_wait |-> FALSE,
     hitl_resume_type |-> NoValue, approved_plan |-> NoPlan,
     raised |-> NoFailure]
NoStoreCalls == [save |-> 0, get |-> 0, delete |-> 0]

\* PlanningHandler constructed, nothing stored, invoke not called
PlanningIdle ==
    /\ pending_plans = NoPlan
    /\ invocation = [i \in Invocations |-> IdleInvocation]
    /\ plan_events = <<>>
    /\ store_calls = [i \in Invocations |-> NoStoreCalls]
    /\ resume_signal = FALSE

\* ------------------------------------------- conversation items, by role
\* the longest Conversation examined
MaxItems == 3
Roles == {"MANAGER", "AGENT"}
ItemContents == {"Search results for task1", "Do work"}
\* the ids parents are named by; task3 never occurs in a Conversation
ParentIds == TaskIds \cup {"task3"}
\* ConversationItem(task_id, role, content)
ConversationItems == [task_id : TaskIds, role : Roles, content : ItemContents]
\* the sequences over a set of at most n elements
SeqsUpTo(S, n) == UNION {[1..k -> S] : k \in 0..n}
\* the lists of distinct parent ids
ParentLists ==
    {l \in SeqsUpTo(ParentIds, 2) :
        \A a, b \in 1..Len(l) : a # b => l[a] # l[b]}
\* the value of `prerequisites` before the call
NotCalled == <<[task_id |-> "not called", content |-> ""]>>

RECURSIVE GetPrerequisitesForTask(_, _)
\* get_prerequisites_for_task(task_id, parent_task_ids): for each parent id
\* with a recorded AGENT item, PreRequisite(task_id = parent, content = the
\* content of that item); the task itself plays no part in the answer
GetPrerequisitesForTask(its, parents) ==
    IF parents = <<>> THEN <<>>
    ELSE LET recorded == SelectSeq(its, LAMBDA x : /\ x.task_id = Head(parents)
                                                     /\ x.role = "AGENT")
         IN  (IF recorded = <<>> THEN <<>>
              ELSE <<[task_id |-> Head(parents),
                      content |-> recorded[1].content]>>)
                 \o GetPrerequisitesForTask(its, Tail(parents))

\* no Conversation is being asked
PrerequisitesIdle ==
    /\ items = <<>>
    /\ parent_ids = <<>>
    /\ prerequisites = NotCalled

\* ------------------------------------------------- RemotePlugin(**kwargs)
\* a keyword argument that is not passed to the constructor
Missing == "<missing>"
\* no RemotePlugin has been constructed
NotConstructed ==
    [status |-> "not constructed", errors |-> {},
     fields |-> [n \in {} |-> None]]
RemotePluginIdle ==
    /\ kwargs = [plugin_name |-> "TestPlugin", openapi_json_path |-> Missing,
                 mcp_plugin_type |-> Missing, mcp_command |-> Missing,
                 mcp_url |-> Missing]
    /\ plugin = NotConstructed

\* ------------------------------------------- Config.get_agent_mcp_servers
\* a value of type list[dict] | None
NoneList == [none |-> TRUE, servers |-> <<>>]
Some(servers) == [none |-> FALSE, servers |-> servers]
\* get_agent_mcp_servers has not been called
NotMerged == [called |-> FALSE, value |-> NoneList]
ConfigIdle ==
    /\ spec_mcp_servers = NoneList
    /\ spec_agents = <<>>
    /\ for_agent = ""
    /\ merged = NotMerged

\* ------------------------------------------------------ SimplifiedMCPClient
\* no call of the client has ended yet
NoResult ==
    [call |-> "none", outcome |-> "none", attempts |-> 0,
     was_initialized |-> FALSE, session |-> 0]
\* SimplifiedMCPClient.__init__
ClientConstructed ==
    /\ session = 0
    /\ connection_context = 0
    /\ initialized = FALSE
    /\ connection_attempts = 0
    /\ last_error = None
    /\ mcp_last_exception = None
    /\ client_pc = "idle"
    /\ caller = "none"
    /\ client_result = NoResult
    /\ entered_contexts = {}
    /\ entered_sessions = {}
    /\ contexts_created = 0
    /\ client_calls = 0
\* a client with the default configuration, never used
ClientIdle ==
    /\ mcp_max_retries = default_max_retries
    /\ graceful_degradation = TRUE
    /\ ClientConstructed

\* -------------------------------------------------------------------- init
\* TeamHandler constructed, invoke called
HandlerInit ==
    /\ max_rounds \in 0..MaxRounds
    /\ round_no = 0
    /\ pc = "round_start"
    /\ events = <<>>
    /\ conversation = <<>>
    /\ manager_output = NoOutput
    /\ determine_action_task = NoTask
    /\ manager_keepalive_task = "none"
    /\ manager_keepalive_queue = 0
    /\ perform_task = NoTask
    /\ keepalive_task = "none"
    /\ keepalive_queue = 0
    /\ task_result = ""
    /\ propagated = FALSE
    /\ manager_calls = 0
    /\ executor_calls = 0
    /\ beats = 0

Init ==
    /\ HandlerInit
    /\ GatewayIdle
    /\ enable_hitl = FALSE
    /\ PlanningIdle
    /\ PrerequisitesIdle
    /\ RemotePluginIdle
    /\ ConfigIdle
    /\ ClientIdle

\* ------------------------------------------------ the manager call (a round)
\* top of `while True`: a fresh queue, the heartbeat task and the manager
\* task are created; the first `while not done()` test finds the new task
\* pending and the generator suspends in wait_for(queue.get(), 1)
RoundStart ==
    /\ pc = "round_start"
    /\ manager_keepalive_queue' = 0
    /\ manager_keepalive_task' = "running"
    /\ determine_action_task' = PendingTask
    /\ manager_calls' = manager_calls + 1
    /\ pc' = "manager_wait"
    /\ UNCHANGED <<otherVars, max_rounds, round_no, events, conversation, manager_output,
                   taskVars, propagated, executor_calls, beats>>

\* run_keepalive(): a 30 s sleep ends while the generator is suspended
ManagerHeartbeat ==
    /\ pc \in {"manager_wait", "manager_yield"}
    /\ manager_keepalive_task = "running"
    /\ beats < MaxBeats
    /\ beats' = beats + 1
    /\ manager_keepalive_queue' = manager_keepalive_queue + 1
    /\ UNCHANGED <<otherVars, max_rounds, round_no, pc, events, conversation,
                   manager_output, determine_action_task,
                   manager_keepalive_task, taskVars, propagated,
                   manager_calls, executor_calls>>

\* determine_next_action returns a ManagerOutput
ManagerReturns ==
    /\ pc \in {"manager_wait", "manager_yield"}
    /\ determine_action_task.state = "pending"
    /\ \E out \in ManagerOutputs :
           determine_action_task' = [state |-> "returned", value |-> out]
    /\ UNCHANGED <<otherVars, max_rounds, round_no, pc, events, conversation,
                   manager_output, manager_keepalive_task,
                   manager_keepalive_queue, taskVars, propagated,
                   manager_calls, executor_calls, beats>>

\* determine_next_action raises
ManagerRaises ==
    /\ pc \in {"manager_wait", "manager_yield"}
    /\ determine_action_task.state = "pending"
    /\ \E msg \in ExcMessages :
           determine_action_task' = [state |-> "raised", value |-> msg]
    /\ UNCHANGED <<otherVars, max_rounds, round_no, pc, events, conversation,
                   manager_output, manager_keepalive_task,
                   manager_keepalive_queue, taskVars, propagated,
                   manager_calls, executor_calls, beats>>

\* wait_for(manager_keepalive_queue.get(), 1) returns a message: yield it
ManagerKeepalive ==
    /\ pc = "manager_wait"
    /\ manager_keepalive_queue > 0
    /\ manager_keepalive_queue' = manager_keepalive_queue - 1
    /\ Emit(KeepaliveEvent("manager"))
    /\ pc' = "manager_yield"
    /\ UNCHANGED <<otherVars, max_rounds, round_no, conversation, manager_output,
                   determine_action_task, manager_keepalive_task, taskVars,
                   propagated, manager_calls, executor_calls, beats>>

\* resumed after the yield of a keepalive: `while not done()` is tested
ManagerLoopTest ==
    /\ pc = "manager_yield"
    /\ pc' = IF determine_action_task.state = "pending"
             THEN "manager_wait" ELSE "manager_join"
    /\ UNCHANGED <<otherVars, max_rounds, round_no, events, conversation, managerVars,
                   taskVars, propagated, manager_calls, executor_calls,
                   beats>>

\* wait_for times out on an empty queue and the loop test finds the task done
ManagerWaitTimeout ==
    /\ pc = "manager_wait"
    /\ manager_keepalive_queue = 0
    /\ determine_action_task.state # "pending"
    /\ pc' = "manager_join"
    /\ UNCHANGED <<otherVars, max_rounds, round_no, events, conversation, managerVars,
                   taskVars, propagated, manager_calls, executor_calls,
                   beats>>

\* ManagerJoinReturned leaving the heartbeat of the manager call running
ManagerJoinReturned_NoCancel ==
    /\ pc = "manager_join"
    /\ determine_action_task.state = "returned"
    /\ manager_output' = determine_action_task.value
    /\ Emit(NewEvent("MANAGER_RESPONSE", "ManagerOutput", "handler", 0, "",
                     determine_action_task.value.next_action, NoValue))
    /\ pc' = "match"
    /\ UNCHANGED <<otherVars, max_rounds, round_no, conversation, determine_action_task,
                   manager_keepalive_task, manager_keepalive_queue, taskVars,
                   propagated, manager_calls, executor_calls, beats>>

\* `manager_output = await determine_action_task` returns; the heartbeat is
\* cancelled and, in the finally block, awaited; MANAGER_RESPONSE is yielded
ManagerJoinReturned ==
    /\ pc = "manager_join"
    /\ determine_action_task.state = "returned"
    /\ manager_output' = determine_action_task.value
    /\ manager_keepalive_task' = "cancelled"
    /\ Emit(NewEvent("MANAGER_RESPONSE", "ManagerOutput", "handler", 0, "",
                     determine_action_task.value.next_action, NoValue))
    /\ pc' = "match"
    /\ UNCHANGED <<otherVars, max_rounds, round_no, conversation, determine_action_task,
                   manager_keepalive_queue, taskVars, propagated,
                   manager_calls, executor_calls, beats>>

\* ManagerJoinRaised reporting a generic message instead of str(e)
ManagerJoinRaised_Generic ==
    /\ pc = "manager_join"
    /\ determine_action_task.state = "raised"
    /\ manager_keepalive_task' = "cancelling"
    /\ Emit(NewEvent("ERROR", "ErrorResponse", "handler", 500, "",
                     "Max retries exceeded", NoValue))
    /\ pc' = "manager_error"
    /\ UNCHANGED <<otherVars, max_rounds, round_no, conversation, manager_output,
                   determine_action_task, manager_keepalive_queue, taskVars,
                   propagated, manager_calls, executor_calls, beats>>

\* `await determine_action_task` raises: the except block cancels the
\* heartbeat and yields ErrorResponse(500, detail=str(e))
ManagerJoinRaised ==
    /\ pc = "manager_join"
    /\ determine_action_task.state = "raised"
    /\ manager_keepalive_task' = "cancelling"
    /\ Emit(NewEvent("ERROR", "ErrorResponse", "handler", 500, "",
                     determine_action_task.value, NoValue))
    /\ pc' = "manager_error"
    /\ UNCHANGED <<otherVars, max_rounds, round_no, conversation, manager_output,
                   determine_action_task, manager_keepalive_queue, taskVars,
                   propagated, manager_calls, executor_calls, beats>>

\* resumed after that yield: `return`, the finally block awaits the
\* cancelled heartbeat, the generator ends
ManagerErrorReturn ==
    /\ pc = "manager_error"
    /\ manager_keepalive_task' = "cancelled"
    /\ pc' = "done"
    /\ UNCHANGED <<otherVars, max_rounds, round_no, events, conversation, manager_output,
                   determine_action_task, manager_keepalive_queue, taskVars,
                   propagated, manager_calls, executor_calls, beats>>

\* ------------------------------------------------ match manager_output.next_action
\* case Action.PROVIDE_RESULT: the result recorded for result_task_id is
\* read from the conversation; reading .result of None raises outside every
\* try block of invoke
MatchProvideResult ==
    /\ pc = "match"
    /\ manager_output.next_action = "PROVIDE_RESULT"
    /\ LET i == GetMessageByTaskId(conversation, manager_output.result_task_id)
       IN  IF i = 0
           THEN /\ propagated' = TRUE
                /\ UNCHANGED events
           ELSE /\ Emit(NewEvent("FINAL_RESPONSE", "InvokeResponse", "handler",
                                 0, "", conversation[i].result, NoValue))
                /\ UNCHANGED propagated
    /\ pc' = "done"
    /\ UNCHANGED <<otherVars, max_rounds, round_no, conversation, managerVars, taskVars,
                   manager_calls, executor_calls, beats>>

\* MatchAbort without its `break`: the round goes on to the budget test
MatchAbort_NoBreak ==
    /\ pc = "match"
    /\ manager_output.next_action = "ABORT"
    /\ Emit(NewEvent("ERROR", "AbortResult", "handler", 0, "",
                     manager_output.abort_reason, NoValue))
    /\ pc' = "round_end"
    /\ UNCHANGED <<otherVars, max_rounds, round_no, conversation, managerVars, taskVars,
                   propagated, manager_calls, executor_calls, beats>>

\* case Action.ABORT
MatchAbort ==
    /\ pc = "match"
    /\ manager_output.next_action = "ABORT"
    /\ Emit(NewEvent("ERROR", "AbortResult", "handler", 0, "",
                     manager_output.abort_reason, NoValue))
    /\ pc' = "done"
    /\ UNCHANGED <<otherVars, max_rounds, round_no, conversation, managerVars, taskVars,
                   propagated, manager_calls, executor_calls, beats>>

\* MatchUnknown reporting a server error (500) instead of 400
MatchUnknown_Status500 ==
    /\ pc = "match"
    /\ manager_output.next_action \notin Actions
    /\ Emit(NewEvent("ERROR", "ErrorResponse", "handler", 500,
                     "Unknown action: ", manager_output.next_action, NoValue))
    /\ pc' = "done"
    /\ UNCHANGED <<otherVars, max_rounds, round_no, conversation, managerVars, taskVars,
                   propagated, manager_calls, executor_calls, beats>>

\* case _
MatchUnknown ==
    /\ pc = "match"
    /\ manager_output.next_action \notin Actions
    /\ Emit(NewEvent("ERROR", "ErrorResponse", "handler", 400,
                     "Unknown action: ", manager_output.next_action, NoValue))
    /\ pc' = "done"
    /\ UNCHANGED <<otherVars, max_rounds, round_no, conversation, managerVars, taskVars,
                   propagated, manager_calls, executor_calls, beats>>

\* MatchAssign recording an empty result for a task whose agent is not
\* registered
MatchAssign_RecordsUnknown ==
    /\ pc = "match"
    /\ manager_output.next_action = "ASSIGN_NEW_TASK"
    /\ executor_calls' = executor_calls + 1
    /\ IF manager_output.agent_name \in RegisteredAgents
       THEN /\ Emit(NewEvent("AGENT_REQUEST", "AgentRequestEvent", "executor",
                             0, "", manager_output.agent_name,
                             manager_output.task_id))
            /\ pc' = "task_start"
            /\ UNCHANGED conversation
       ELSE /\ Emit(NewEvent("ERROR", "ErrorResponse", "execute_task", 500,
                             "", manager_output.agent_name, NoValue))
            /\ conversation' = AddItem(conversation, manager_output.task_id,
                                       manager_output.agent_name, "")
            /\ pc' = "round_end"
    /\ UNCHANGED <<otherVars, max_rounds, round_no, managerVars, taskVars,
                   propagated, manager_calls, beats>>

\* MatchAssign with execute_task_sse starting the call without yielding
\* AGENT_REQUEST first
MatchAssign_NoRequest ==
    /\ pc = "match"
    /\ manager_output.next_action = "ASSIGN_NEW_TASK"
    /\ executor_calls' = executor_calls + 1
    /\ IF manager_output.agent_name \in RegisteredAgents
       THEN /\ UNCHANGED events
            /\ pc' = "task_start"
       ELSE /\ Emit(NewEvent("ERROR", "ErrorResponse", "execute_task", 500,
                             "", manager_output.agent_name, NoValue))
            /\ pc' = "round_end"
    /\ UNCHANGED <<otherVars, max_rounds, round_no, conversation, managerVars, taskVars,
                   propagated, manager_calls, beats>>

\* case Action.ASSIGN_NEW_TASK: _execute_task iterates execute_task_sse.
\* self.agents[agent_name] raises KeyError for an unregistered name, which
\* _execute_task turns into ErrorResponse(500, detail=str(e)); otherwise
\* AGENT_REQUEST is yielded
MatchAssign ==
    /\ pc = "match"
    /\ manager_output.next_action = "ASSIGN_NEW_TASK"
    /\ executor_calls' = executor_calls + 1
    /\ IF manager_output.agent_name \in RegisteredAgents
       THEN /\ Emit(NewEvent("AGENT_REQUEST", "AgentRequestEvent", "executor",
                             0, "", manager_output.agent_name,
                             manager_output.task_id))
            /\ pc' = "task_start"
       ELSE /\ Emit(NewEvent("ERROR", "ErrorResponse", "execute_task", 500,
                             "", manager_output.agent_name, NoValue))
            /\ pc' = "round_end"
    /\ UNCHANGED <<otherVars, max_rounds, round_no, conversation, managerVars, taskVars,
                   propagated, manager_calls, beats>>

\* ------------------------------------------- TaskExecutor.execute_task_sse
\* resumed after AGENT_REQUEST: task_result = "", a fresh queue, the
\* heartbeat task and the agent task are created, the loop suspends in
\* wait_for(keepalive_queue.get(), 1)
TaskStart ==
    /\ pc = "task_start"
    /\ task_result' = ""
    /\ keepalive_queue' = 0
    /\ keepalive_task' = "running"
    /\ perform_task' = PendingTask
    /\ pc' = "task_wait"
    /\ UNCHANGED <<otherVars, max_rounds, round_no, events, conversation, managerVars,
                   propagated, manager_calls, executor_calls, beats>>

\* keepalive_coroutine(): a 30 s sleep ends while the generator is suspended
TaskHeartbeat ==
    /\ pc \in {"task_wait", "task_yield"}
    /\ keepalive_task = "running"
    /\ beats < MaxBeats
    /\ beats' = beats + 1
    /\ keepalive_queue' = keepalive_queue + 1
    /\ UNCHANGED <<otherVars, max_rounds, round_no, pc, events, conversation,
                   managerVars, perform_task, keepalive_task, task_result,
                   propagated, manager_calls, executor_calls>>

\* task_agent.perform_task returns a response body
AgentReturns ==
    /\ pc \in {"task_wait", "task_yield"}
    /\ perform_task.state = "pending"
    /\ \E r \in Results \cup {InvalidResponse} :
           perform_task' = [state |-> "returned", value |-> r]
    /\ UNCHANGED <<otherVars, max_rounds, round_no, pc, events, conversation,
                   managerVars, keepalive_task, keepalive_queue, task_result,
                   propagated, manager_calls, executor_calls, beats>>

\* task_agent.perform_task raises
AgentRaises ==
    /\ pc \in {"task_wait", "task_yield"}
    /\ perform_task.state = "pending"
    /\ \E msg \in ExcMessages :
           perform_task' = [state |-> "raised", value |-> msg]
    /\ UNCHANGED <<otherVars, max_rounds, round_no, pc, events, conversation,
                   managerVars, keepalive_task, keepalive_queue, task_result,
                   propagated, manager_calls, executor_calls, beats>>

\* wait_for(keepalive_queue.get(), 1) returns a message: yield it
TaskKeepalive ==
    /\ pc = "task_wait"
    /\ keepalive_queue > 0
    /\ keepalive_queue' = keepalive_queue - 1
    /\ Emit(KeepaliveEvent("executor"))
    /\ pc' = "task_yield"
    /\ UNCHANGED <<otherVars, max_rounds, round_no, conversation, managerVars,
                   perform_task, keepalive_task, task_result, propagated,
                   manager_calls, executor_calls, beats>>

\* resumed after the yield of a keepalive: `while not done()` is tested
TaskLoopTest ==
    /\ pc = "task_yield"
    /\ pc' = IF perform_task.state = "pending"
             THEN "task_wait" ELSE "task_join"
    /\ UNCHANGED <<otherVars, max_rounds, round_no, events, conversation, managerVars,
                   taskVars, propagated, manager_calls, executor_calls,
                   beats>>

\* wait_for times out on an empty queue and the loop test finds the task done
TaskWaitTimeout ==
    /\ pc = "task_wait"
    /\ keepalive_queue = 0
    /\ perform_task.state # "pending"
    /\ pc' = "task_join"
    /\ UNCHANGED <<otherVars, max_rounds, round_no, events, conversation, managerVars,
                   taskVars, propagated, manager_calls, executor_calls,
                   beats>>

\* InvokeResponse.model_validate(response) accepts the body
ModelValidate(response) == response \in Results

\* TaskJoinReturned with conversation.add_item moved in front of the yield
\* of FINAL_RESPONSE: the result is recorded while the event is still to be
\* emitted
TaskJoinReturned_AppendsFirst ==
    /\ pc = "task_join"
    /\ perform_task.state = "returned"
    /\ ModelValidate(perform_task.value)
    /\ keepalive_task' = "cancelling"
    /\ task_result' = perform_task.value
    /\ conversation' = AddItem(conversation, manager_output.task_id,
                               manager_output.agent_name, perform_task.value)
    /\ pc' = "task_final"
    /\ UNCHANGED <<otherVars, max_rounds, round_no, events, managerVars,
                   perform_task, keepalive_queue, propagated, manager_calls,
                   executor_calls, beats>>

\* `response = await perform_task` returns and validates: the heartbeat is
\* cancelled, task_result is set, FINAL_RESPONSE is yielded
TaskJoinReturned ==
    /\ pc = "task_join"
    /\ perform_task.state = "returned"
    /\ ModelValidate(perform_task.value)
    /\ keepalive_task' = "cancelling"
    /\ task_result' = perform_task.value
    /\ Emit(NewEvent("FINAL_RESPONSE", "InvokeResponse", "executor", 0, "",
                     perform_task.value, NoValue))
    /\ pc' = "task_final"
    /\ UNCHANGED <<otherVars, max_rounds, round_no, conversation, managerVars,
                   perform_task, keepalive_queue, propagated, manager_calls,
                   executor_calls, beats>>

\* TaskJoinFailed with the except block swallowing the exception: nothing
\* is yielded
TaskJoinFailed_Silent ==
    /\ pc = "task_join"
    /\ \/ perform_task.state = "raised"
       \/ perform_task.state = "returned" /\ ~ModelValidate(perform_task.value)
    /\ keepalive_task' = "cancelling"
    /\ pc' = "task_final"
    /\ UNCHANGED <<otherVars, max_rounds, round_no, events, conversation, managerVars,
                   perform_task, keepalive_queue, task_result, propagated,
                   manager_calls, executor_calls, beats>>

\* `await perform_task` or model_validate raises: the except block cancels
\* the heartbeat and yields ErrorResponse(500, "Unexpected error occurred: e")
TaskJoinFailed ==
    /\ pc = "task_join"
    /\ \/ perform_task.state = "raised"
       \/ perform_task.state = "returned" /\ ~ModelValidate(perform_task.value)
    /\ keepalive_task' = "cancelling"
    /\ Emit(NewEvent("ERROR", "ErrorResponse", "executor", 500,
                     "Unexpected error occurred: ",
                     IF perform_task.state = "raised"
                     THEN perform_task.value ELSE "validation error",
                     NoValue))
    /\ pc' = "task_final"
    /\ UNCHANGED <<otherVars, max_rounds, round_no, conversation, managerVars,
                   perform_task, keepalive_queue, task_result, propagated,
                   manager_calls, executor_calls, beats>>

\* TaskFinish with the round-limit check in front of conversation.add_item:
\* in the round that exhausts the budget the max-rounds event goes out and
\* the stream ends with the result not yet appended
TaskFinish_LimitFirst ==
    /\ pc = "task_final"
    /\ keepalive_task' = "cancelled"
    /\ IF round_no + 1 >= max_rounds
       THEN /\ Emit(NewEvent("ERROR", "AbortResult", "handler", 0,
                             "Max rounds surpassed: ", "max_rounds", NoValue))
            /\ round_no' = round_no + 1
            /\ pc' = "done"
            /\ UNCHANGED conversation
       ELSE /\ conversation' = AddItem(conversation, manager_output.task_id,
                                       manager_output.agent_name, task_result)
            /\ pc' = "round_end"
            /\ UNCHANGED <<events, round_no>>
    /\ UNCHANGED <<otherVars, max_rounds, managerVars, perform_task,
                   keepalive_queue, task_result, propagated, manager_calls,
                   executor_calls, beats>>

\* resumed after the terminal yield: the finally block awaits the cancelled
\* heartbeat, then conversation.add_item(task_id, agent_name, instructions,
\* task_result) runs and the generators return to the round loop
TaskFinish ==
    /\ pc = "task_final"
    /\ keepalive_task' = "cancelled"
    /\ conversation' = AddItem(conversation, manager_output.task_id,
                               manager_output.agent_name, task_result)
    /\ pc' = "round_end"
    /\ UNCHANGED <<otherVars, max_rounds, round_no, events, managerVars, perform_task,
                   keepalive_queue, task_result, propagated, manager_calls,
                   executor_calls, beats>>

\* ------------------------------------------------------------ round budget
\* RoundEnd with the limit tested by > instead of >=
RoundEnd_OffByOne ==
    /\ pc = "round_end"
    /\ round_no' = round_no + 1
    /\ IF round_no + 1 > max_rounds
       THEN /\ Emit(NewEvent("ERROR", "AbortResult", "handler", 0,
                             "Max rounds surpassed: ", "max_rounds", NoValue))
            /\ pc' = "done"
       ELSE /\ pc' = "round_start"
            /\ UNCHANGED events
    /\ UNCHANGED <<otherVars, max_rounds, conversation, managerVars, taskVars,
                   propagated, manager_calls, executor_calls, beats>>

\* round_no = round_no + 1; if round_no >= self.max_rounds: yield the
\* AbortResult "Max rounds surpassed" and break
RoundEnd ==
    /\ pc = "round_end"
    /\ round_no' = round_no + 1
    /\ IF round_no + 1 >= max_rounds
       THEN /\ Emit(NewEvent("ERROR", "AbortResult", "handler", 0,
                             "Max rounds surpassed: ", "max_rounds", NoValue))
            /\ pc' = "done"
       ELSE /\ pc' = "round_start"
            /\ UNCHANGED events
    /\ UNCHANGED <<otherVars, max_rounds, conversation, managerVars, taskVars,
                   propagated, manager_calls, executor_calls, beats>>

Next ==
    \/ RoundStart
    \/ ManagerHeartbeat
    \/ ManagerReturns
    \/ ManagerRaises
    \/ ManagerKeepalive
    \/ ManagerLoopTest
    \/ ManagerWaitTimeout
    \/ ManagerJoinReturned
    \/ ManagerJoinRaised
    \/ ManagerErrorReturn
    \/ MatchProvideResult
    \/ MatchAbort
    \/ MatchUnknown
    \/ MatchAssign
    \/ TaskStart
    \/ TaskHeartbeat
    \/ AgentReturns
    \/ AgentRaises
    \/ TaskKeepalive
    \/ TaskLoopTest
    \/ TaskWaitTimeout
    \/ TaskJoinReturned
    \/ TaskJoinFailed
    \/ TaskFinish
    \/ RoundEnd

Spec == Init /\ [][Next]_vars

\* the event loop runs every runnable step, and every remote call returns
\* or fails
FairSpec ==
    /\ Spec
    /\ WF_vars(Next)
    /\ WF_vars(ManagerReturns \/ ManagerRaises)
    /\ WF_vars(AgentReturns \/ AgentRaises)

\* ----------------------------------------------- the consumer goes away
\* the task iterating invoke is cancelled while the generator is suspended
\* in wait_for(queue.get(), 1): CancelledError is not an Exception, so no
\* except block handles it; the finally block of the scope cancels the
\* heartbeat and awaits it, and the error leaves invoke. Nothing cancels
\* the task of the manager or agent call
CancelInWait ==
    /\ pc \in {"manager_wait", "task_wait"}
    /\ IF pc = "manager_wait"
       THEN /\ manager_keepalive_task' = "cancelled"
            /\ UNCHANGED keepalive_task
       ELSE /\ keepalive_task' = "cancelled"
            /\ UNCHANGED manager_keepalive_task
    /\ pc' = "closed"
    /\ UNCHANGED <<otherVars, max_rounds, round_no, events, conversation,
                   manager_output, determine_action_task,
                   manager_keepalive_queue, perform_task, keepalive_queue,
                   task_result, propagated, manager_calls, executor_calls,
                   beats>>

\* invoke is closed while suspended at one of its own yields (a manager
\* keepalive, the ErrorResponse of the manager call, MANAGER_RESPONSE):
\* GeneratorExit is raised at the yield and the finally block of the manager
\* scope, when the yield is inside it, cancels and awaits the heartbeat
CloseAtYield ==
    /\ pc \in {"manager_yield", "manager_error", "match"}
    /\ manager_keepalive_task' = "cancelled"
    /\ pc' = "closed"
    /\ UNCHANGED <<otherVars, max_rounds, round_no, events, conversation,
                   manager_output, determine_action_task,
                   manager_keepalive_queue, taskVars, propagated,
                   manager_calls, executor_calls, beats>>

\* invoke is closed while suspended at `yield result` inside the
\* `async for` over _execute_task: invoke exits, but `async for` does not
\* close the generator it iterates, so execute_task_sse stays suspended at
\* its own yield until the event loop finalizes it
AbandonAtYield ==
    /\ pc \in {"task_start", "task_yield", "task_final"}
    /\ pc' = "abandoned"
    /\ UNCHANGED <<otherVars, max_rounds, round_no, events, conversation,
                   managerVars, taskVars, propagated, manager_calls,
                   executor_calls, beats>>

\* keepalive_coroutine(): a 30 s sleep ends while execute_task_sse waits to
\* be finalized (one period more than the MaxBeats that elapse before)
AbandonedHeartbeat ==
    /\ pc = "abandoned"
    /\ keepalive_task = "running"
    /\ beats <= MaxBeats
    /\ beats' = beats + 1
    /\ keepalive_queue' = keepalive_queue + 1
    /\ UNCHANGED <<otherVars, max_rounds, round_no, pc, events, conversation,
                   managerVars, perform_task, keepalive_task, task_result,
                   propagated, manager_calls, executor_calls>>

\* the abandoned execute_task_sse is finalized (aclose): GeneratorExit is
\* raised at its yield, the finally block cancels a heartbeat that is not
\* done and awaits it; conversation.add_item is not reached
FinalizeAbandoned ==
    /\ pc = "abandoned"
    /\ keepalive_task' = IF keepalive_task \in {"running", "cancelling"}
                         THEN "cancelled" ELSE keepalive_task
    /\ pc' = "closed"
    /\ UNCHANGED <<otherVars, max_rounds, round_no, events, conversation,
                   managerVars, perform_task, keepalive_queue, task_result,
                   propagated, manager_calls, executor_calls, beats>>

DisconnectNext ==
    \/ Next
    \/ CancelInWait
    \/ CloseAtYield
    \/ AbandonAtYield
    \/ AbandonedHeartbeat
    \/ FinalizeAbandoned

\* TeamHandler.invoke with a consumer that may go away at any suspension
DisconnectSpec == Init /\ [][DisconnectNext]_vars

\* ------------------------------------------- AgentGateway.invoke_agent
\* the call: payload and headers are built, attempt = 0,
\* last_exception = None
InvokeAgent ==
    /\ gw_pc = "idle"
    /\ attempt' = 0
    /\ last_exception' = None
    /\ gw_pc' = "loop"
    /\ UNCHANGED <<handlerVars, planningVars, prerequisiteVars, skVars, posts, sleeps, gw_result>>

\* `while attempt < max_retries` holds: a new client posts the payload
LoopEnter ==
    /\ gw_pc = "loop"
    /\ attempt < max_retries
    /\ gw_pc' = "post"
    /\ UNCHANGED <<handlerVars, planningVars, prerequisiteVars, skVars, attempt, last_exception, posts, sleeps,
                   gw_result>>

\* the post answers, raise_for_status() passes: return response.json()
PostReturns ==
    /\ gw_pc = "post"
    /\ \E body \in ResponseBodies :
           /\ posts' = Append(posts, [kind |-> "ok", value |-> body])
           /\ gw_result' = [kind |-> "returned", value |-> body]
    /\ gw_pc' = "returned"
    /\ UNCHANGED <<handlerVars, planningVars, prerequisiteVars, skVars, attempt, last_exception, sleeps>>

\* PostTimesOut giving up on the first timeout
PostTimesOut_NoRetry ==
    /\ gw_pc = "post"
    /\ \E e \in TimeoutExceptions :
           /\ posts' = Append(posts, [kind |-> "timeout", value |-> e])
           /\ last_exception' = e
           /\ gw_result' = [kind |-> "raised", value |-> e]
    /\ gw_pc' = "raised"
    /\ UNCHANGED <<handlerVars, planningVars, prerequisiteVars, skVars, attempt, sleeps>>

\* except httpx.TimeoutException: last_exception = e, then the coroutine
\* sleeps one second
PostTimesOut ==
    /\ gw_pc = "post"
    /\ \E e \in TimeoutExceptions :
           /\ posts' = Append(posts, [kind |-> "timeout", value |-> e])
           /\ last_exception' = e
    /\ gw_pc' = "sleep"
    /\ UNCHANGED <<handlerVars, planningVars, prerequisiteVars, skVars, attempt, sleeps, gw_result>>

\* asyncio.sleep(1) returns: attempt += 1
SleepReturns ==
    /\ gw_pc = "sleep"
    /\ sleeps' = sleeps + 1
    /\ attempt' = attempt + 1
    /\ gw_pc' = "loop"
    /\ UNCHANGED <<handlerVars, planningVars, prerequisiteVars, skVars, last_exception, posts, gw_result>>

\* except Exception: last_exception = e, attempt += 1
PostFails ==
    /\ gw_pc = "post"
    /\ \E e \in OtherExceptions :
           /\ posts' = Append(posts, [kind |-> "error", value |-> e])
           /\ last_exception' = e
    /\ attempt' = attempt + 1
    /\ gw_pc' = "loop"
    /\ UNCHANGED <<handlerVars, planningVars, prerequisiteVars, skVars, sleeps, gw_result>>

\* LoopExit raising the generic TimeoutError whatever was observed
LoopExit_Generic ==
    /\ gw_pc = "loop"
    /\ ~(attempt < max_retries)
    /\ gw_result' = [kind |-> "raised", value |-> MaxRetriesExceeded]
    /\ gw_pc' = "raised"
    /\ UNCHANGED <<handlerVars, planningVars, prerequisiteVars, skVars, attempt, last_exception, posts, sleeps>>

\* the loop condition fails:
\* raise last_exception or TimeoutError("Max retries exceeded")
LoopExit ==
    /\ gw_pc = "loop"
    /\ ~(attempt < max_retries)
    /\ gw_result' = [kind |-> "raised",
                     value |-> IF last_exception # None
                               THEN last_exception ELSE MaxRetriesExceeded]
    /\ gw_pc' = "raised"
    /\ UNCHANGED <<handlerVars, planningVars, prerequisiteVars, skVars, attempt, last_exception, posts, sleeps>>

GatewayNext ==
    \/ InvokeAgent
    \/ LoopEnter
    \/ PostReturns
    \/ PostTimesOut
    \/ SleepReturns
    \/ PostFails
    \/ LoopExit

\* one call of invoke_agent, the handler not running
GatewayInit ==
    /\ HandlerInit
    /\ max_rounds = MaxRounds
    /\ GatewayIdle
    /\ enable_hitl = FALSE
    /\ PlanningIdle
    /\ PrerequisitesIdle
    /\ RemotePluginIdle
    /\ ConfigIdle
    /\ ClientIdle

GatewaySpec == GatewayInit /\ [][GatewayNext]_vars

\* ------------------------------------------------- PlanningHandler.invoke
\* an event of the planning stream: the call that yielded it, its type, the
\* plan it carries and its message
PlanEvent(inv, type, plan, detail) ==
    [inv |-> inv, type |-> type, plan |-> plan, detail |-> detail]

EmitPlanEvent(e) == plan_events' = Append(plan_events, e)

\* invoke(request_id, user_input, config, history) without a resume type
PlanningInvoke ==
    /\ invocation["initial"].pc = "idle"
    /\ invocation' = [invocation EXCEPT !["initial"].pc = "generate"]
    /\ UNCHANGED <<handlerVars, gatewayVars, prerequisiteVars, skVars, enable_hitl, pending_plans, plan_events,
                   store_calls, resume_signal>>

\* GeneratePlanFails reporting every failure as an unexpected error
GeneratePlanFails_Generic ==
    /\ invocation["initial"].pc = "generate"
    /\ \E x \in PlanningFailures :
           /\ EmitPlanEvent(PlanEvent("initial", "ERROR", NoPlan,
                  "An unexpected error occurred during planning"))
           /\ invocation' = [invocation EXCEPT !["initial"].pc = "done",
                                               !["initial"].raised = x]
    /\ UNCHANGED <<handlerVars, gatewayVars, prerequisiteVars, skVars, enable_hitl, pending_plans,
                   store_calls, resume_signal>>

\* GENERATE_PLAN: PlanManager raises; one ErrorResponse ends the stream,
\* "Planning failed: <reason>" for a PlanningFailedException, "An unexpected
\* error occurred during planning" for anything else
GeneratePlanFails ==
    /\ invocation["initial"].pc = "generate"
    /\ \E x \in PlanningFailures :
           /\ EmitPlanEvent(PlanEvent("initial", "ERROR", NoPlan,
                  IF x.type = "PlanningFailedException"
                  THEN PlanningFailedMessage(x.message)
                  ELSE "An unexpected error occurred during planning"))
           /\ invocation' = [invocation EXCEPT !["initial"].pc = "done",
                                               !["initial"].raised = x]
    /\ UNCHANGED <<handlerVars, gatewayVars, prerequisiteVars, skVars, enable_hitl, pending_plans,
                   store_calls, resume_signal>>

\* GENERATE_PLAN succeeds and nobody is to be asked (should_wait_for_user
\* is false or HITL is disabled): PLAN_GENERATION_END, then EXECUTE
GeneratePlan ==
    /\ invocation["initial"].pc = "generate"
    /\ \E plan \in GeneratedPlans, wait \in BOOLEAN :
           /\ ~(enable_hitl /\ wait)
           /\ invocation' = [invocation EXCEPT !["initial"].pc = "execute",
                                               !["initial"].plan = plan,
                                               !["initial"].should_wait = wait]
           /\ EmitPlanEvent(PlanEvent("initial", "PLAN_GENERATION_END", plan,
                                      ""))
    /\ UNCHANGED <<handlerVars, gatewayVars, prerequisiteVars, skVars, enable_hitl, pending_plans, store_calls,
                   resume_signal>>

\* GENERATE_PLAN succeeds with should_wait_for_user and HITL enabled: the
\* call goes on to persist the plan
GeneratePlanForApproval ==
    /\ invocation["initial"].pc = "generate"
    /\ enable_hitl
    /\ \E plan \in GeneratedPlans :
           invocation' = [invocation EXCEPT !["initial"].pc = "save",
                                            !["initial"].plan = plan,
                                            !["initial"].should_wait = TRUE]
    /\ UNCHANGED <<handlerVars, gatewayVars, prerequisiteVars, skVars, enable_hitl, pending_plans, plan_events,
                   store_calls, resume_signal>>

\* save_pending_plan(request_id, plan, user_input, config, history)
SavePendingPlan ==
    /\ invocation["initial"].pc = "save"
    /\ pending_plans' = invocation["initial"].plan
    /\ store_calls' = [store_calls EXCEPT !["initial"].save = @ + 1]
    /\ invocation' = [invocation EXCEPT !["initial"].pc = "pending"]
    /\ UNCHANGED <<handlerVars, gatewayVars, prerequisiteVars, skVars, enable_hitl, plan_events, resume_signal>>

\* YieldApprovalPending going on to EXECUTE instead of waiting
YieldApprovalPending_Executes ==
    /\ invocation["initial"].pc = "pending"
    /\ EmitPlanEvent(PlanEvent("initial", "PLAN_APPROVAL_PENDING",
                               invocation["initial"].plan, ""))
    /\ invocation' = [invocation EXCEPT !["initial"].pc = "execute"]
    /\ UNCHANGED <<handlerVars, gatewayVars, prerequisiteVars, skVars, enable_hitl, pending_plans, store_calls,
                   resume_signal>>

\* PLAN_APPROVAL_PENDING carrying the plan is yielded; the call then waits
\* for the resume signal or the timeout
YieldApprovalPending ==
    /\ invocation["initial"].pc = "pending"
    /\ EmitPlanEvent(PlanEvent("initial", "PLAN_APPROVAL_PENDING",
                               invocation["initial"].plan, ""))
    /\ invocation' = [invocation EXCEPT !["initial"].pc = "waiting"]
    /\ UNCHANGED <<handlerVars, gatewayVars, prerequisiteVars, skVars, enable_hitl, pending_plans, store_calls,
                   resume_signal>>

\* hitl_timeout_seconds elapse before a resume signal: PLAN_APPROVAL_TIMEOUT
\* is yielded
ApprovalTimeout ==
    /\ invocation["initial"].pc = "waiting"
    /\ ~resume_signal
    /\ EmitPlanEvent(PlanEvent("initial", "PLAN_APPROVAL_TIMEOUT", NoPlan,
                               ""))
    /\ invocation' = [invocation EXCEPT !["initial"].pc = "timeout_delete"]
    /\ UNCHANGED <<handlerVars, gatewayVars, prerequisiteVars, skVars, enable_hitl, pending_plans, store_calls,
                   resume_signal>>

\* TimeoutDelete ending the call without deleting the entry
TimeoutDelete_Skipped ==
    /\ invocation["initial"].pc = "timeout_delete"
    /\ invocation' = [invocation EXCEPT !["initial"].pc = "done"]
    /\ UNCHANGED <<handlerVars, gatewayVars, prerequisiteVars, skVars, enable_hitl, pending_plans,
                   plan_events, store_calls, resume_signal>>

\* after the timeout: delete_pending_plan(request_id), the stream ends
TimeoutDelete ==
    /\ invocation["initial"].pc = "timeout_delete"
    /\ pending_plans' = NoPlan
    /\ store_calls' = [store_calls EXCEPT !["initial"].delete = @ + 1]
    /\ invocation' = [invocation EXCEPT !["initial"].pc = "done"]
    /\ UNCHANGED <<handlerVars, gatewayVars, prerequisiteVars, skVars, enable_hitl, plan_events, resume_signal>>

\* the resume signal arrives first: the waiting call ends, the plan is in
\* the hands of the resume call
ResumeSignalled ==
    /\ invocation["initial"].pc = "waiting"
    /\ resume_signal
    /\ invocation' = [invocation EXCEPT !["initial"].pc = "done"]
    /\ UNCHANGED <<handlerVars, gatewayVars, prerequisiteVars, skVars, enable_hitl, pending_plans, plan_events,
                   store_calls, resume_signal>>

\* a later call of invoke with hitl_resume_type (and approved_plan for an
\* EDIT); the resume endpoints exist only with HITL enabled
ResumeInvoke ==
    /\ invocation["resume"].pc = "idle"
    /\ enable_hitl
    /\ \E t \in HitlResumeTypes, plan \in EditedPlans :
           invocation' =
               [invocation EXCEPT !["resume"].pc = "get",
                                  !["resume"].hitl_resume_type = t,
                                  !["resume"].approved_plan =
                                      IF t = "EDIT" THEN plan ELSE NoPlan]
    /\ UNCHANGED <<handlerVars, gatewayVars, prerequisiteVars, skVars, enable_hitl, pending_plans, plan_events,
                   store_calls, resume_signal>>

\* ResumeGetAbsent ending the call without a word
ResumeGetAbsent_Silent ==
    /\ invocation["resume"].pc = "get"
    /\ pending_plans = NoPlan
    /\ store_calls' = [store_calls EXCEPT !["resume"].get = @ + 1]
    /\ invocation' = [invocation EXCEPT !["resume"].pc = "done"]
    /\ UNCHANGED <<handlerVars, gatewayVars, prerequisiteVars, skVars, enable_hitl, pending_plans,
                   plan_events, resume_signal>>

\* get_pending_plan(request_id) finds nothing: the request fails
ResumeGetAbsent ==
    /\ invocation["resume"].pc = "get"
    /\ pending_plans = NoPlan
    /\ store_calls' = [store_calls EXCEPT !["resume"].get = @ + 1]
    /\ EmitPlanEvent(PlanEvent("resume", "ERROR", NoPlan,
                               "No pending plan found"))
    /\ invocation' = [invocation EXCEPT !["resume"].pc = "done"]
    /\ UNCHANGED <<handlerVars, gatewayVars, prerequisiteVars, skVars, enable_hitl, pending_plans, resume_signal>>

\* get_pending_plan(request_id) returns the stored entry; the waiting call
\* is signalled
ResumeGet ==
    /\ invocation["resume"].pc = "get"
    /\ pending_plans # NoPlan
    /\ store_calls' = [store_calls EXCEPT !["resume"].get = @ + 1]
    /\ resume_signal' = TRUE
    /\ invocation' = [invocation EXCEPT !["resume"].pc = "branch",
                                        !["resume"].plan = pending_plans]
    /\ UNCHANGED <<handlerVars, gatewayVars, prerequisiteVars, skVars, enable_hitl, pending_plans, plan_events>>

\* ResumeApprove yielding nothing
ResumeApprove_Silent ==
    /\ invocation["resume"].pc = "branch"
    /\ invocation["resume"].hitl_resume_type = "APPROVE"
    /\ invocation' = [invocation EXCEPT !["resume"].pc = "delete"]
    /\ UNCHANGED <<handlerVars, gatewayVars, prerequisiteVars, skVars, enable_hitl, pending_plans, plan_events,
                   store_calls, resume_signal>>

\* APPROVE: PLAN_APPROVED is yielded, the stored plan will be executed
ResumeApprove ==
    /\ invocation["resume"].pc = "branch"
    /\ invocation["resume"].hitl_resume_type = "APPROVE"
    /\ EmitPlanEvent(PlanEvent("resume", "PLAN_APPROVED",
                               invocation["resume"].plan, ""))
    /\ invocation' = [invocation EXCEPT !["resume"].pc = "delete"]
    /\ UNCHANGED <<handlerVars, gatewayVars, prerequisiteVars, skVars, enable_hitl, pending_plans, store_calls,
                   resume_signal>>

\* ResumeEdit executing the stored plan
ResumeEdit_KeepsStored ==
    /\ invocation["resume"].pc = "branch"
    /\ invocation["resume"].hitl_resume_type = "EDIT"
    /\ EmitPlanEvent(PlanEvent("resume", "PLAN_EDITED",
                               invocation["resume"].approved_plan, ""))
    /\ invocation' = [invocation EXCEPT !["resume"].pc = "delete"]
    /\ UNCHANGED <<handlerVars, gatewayVars, prerequisiteVars, skVars, enable_hitl, pending_plans,
                   store_calls, resume_signal>>

\* EDIT: the submitted plan is rebuilt and replaces the stored one,
\* PLAN_EDITED is yielded
ResumeEdit ==
    /\ invocation["resume"].pc = "branch"
    /\ invocation["resume"].hitl_resume_type = "EDIT"
    /\ EmitPlanEvent(PlanEvent("resume", "PLAN_EDITED",
                               invocation["resume"].approved_plan, ""))
    /\ invocation' =
           [invocation EXCEPT !["resume"].pc = "delete",
                              !["resume"].plan =
                                  invocation["resume"].approved_plan]
    /\ UNCHANGED <<handlerVars, gatewayVars, prerequisiteVars, skVars, enable_hitl, pending_plans, store_calls,
                   resume_signal>>

\* ResumeCancel ending the call without deleting the entry
ResumeCancel_NoDelete ==
    /\ invocation["resume"].pc = "branch"
    /\ invocation["resume"].hitl_resume_type = "CANCEL"
    /\ EmitPlanEvent(PlanEvent("resume", "PLAN_CANCELLED", NoPlan, ""))
    /\ invocation' = [invocation EXCEPT !["resume"].pc = "done"]
    /\ UNCHANGED <<handlerVars, gatewayVars, prerequisiteVars, skVars, enable_hitl, pending_plans, store_calls,
                   resume_signal>>

\* CANCEL: PLAN_CANCELLED is yielded
ResumeCancel ==
    /\ invocation["resume"].pc = "branch"
    /\ invocation["resume"].hitl_resume_type = "CANCEL"
    /\ EmitPlanEvent(PlanEvent("resume", "PLAN_CANCELLED", NoPlan, ""))
    /\ invocation' = [invocation EXCEPT !["resume"].pc = "delete"]
    /\ UNCHANGED <<handlerVars, gatewayVars, prerequisiteVars, skVars, enable_hitl, pending_plans, store_calls,
                   resume_signal>>

\* ResumeDelete going on to EXECUTE in every branch
ResumeDelete_Executes ==
    /\ invocation["resume"].pc = "delete"
    /\ pending_plans' = NoPlan
    /\ store_calls' = [store_calls EXCEPT !["resume"].delete = @ + 1]
    /\ invocation' = [invocation EXCEPT !["resume"].pc = "execute"]
    /\ UNCHANGED <<handlerVars, gatewayVars, prerequisiteVars, skVars, enable_hitl, plan_events, resume_signal>>

\* in every resume branch: delete_pending_plan(request_id); a cancelled
\* resume ends here, the others go on to EXECUTE
ResumeDelete ==
    /\ invocation["resume"].pc = "delete"
    /\ pending_plans' = NoPlan
    /\ store_calls' = [store_calls EXCEPT !["resume"].delete = @ + 1]
    /\ invocation' =
           [invocation EXCEPT !["resume"].pc =
               IF invocation["resume"].hitl_resume_type = "CANCEL"
               THEN "done" ELSE "execute"]
    /\ UNCHANGED <<handlerVars, gatewayVars, prerequisiteVars, skVars, enable_hitl, plan_events, resume_signal>>

\* EXECUTE: PLAN_EXECUTION_START carrying the plan
ExecutionStart(inv) ==
    /\ invocation[inv].pc = "execute"
    /\ EmitPlanEvent(PlanEvent(inv, "PLAN_EXECUTION_START",
                               invocation[inv].plan, ""))
    /\ invocation' = [invocation EXCEPT ![inv].pc = "step", ![inv].step = 1]
    /\ UNCHANGED <<handlerVars, gatewayVars, prerequisiteVars, skVars, enable_hitl, pending_plans, store_calls,
                   resume_signal>>

\* StepExecutor runs the next step of the plan to its end
StepCompletes(inv) ==
    /\ invocation[inv].pc = "step"
    /\ invocation[inv].step <= Len(invocation[inv].plan)
    /\ EmitPlanEvent(PlanEvent(inv, "STEP_EXECUTION_END", NoPlan,
                               invocation[inv].plan[invocation[inv].step]))
    /\ invocation' = [invocation EXCEPT ![inv].step = @ + 1]
    /\ UNCHANGED <<handlerVars, gatewayVars, prerequisiteVars, skVars, enable_hitl, pending_plans, store_calls,
                   resume_signal>>

\* StepRaises reporting the error and going on with the next step
StepRaises_Continues(inv) ==
    /\ invocation[inv].pc = "step"
    /\ invocation[inv].step <= Len(invocation[inv].plan)
    /\ EmitPlanEvent(PlanEvent(inv, "ERROR", NoPlan,
           "An unexpected error occurred during step execution"))
    /\ invocation' = [invocation EXCEPT ![inv].step = @ + 1]
    /\ UNCHANGED <<handlerVars, gatewayVars, prerequisiteVars, skVars, enable_hitl, pending_plans,
                   store_calls, resume_signal>>

\* StepExecutor raises in the next step: one ErrorResponse ends the stream
StepRaises(inv) ==
    /\ invocation[inv].pc = "step"
    /\ invocation[inv].step <= Len(invocation[inv].plan)
    /\ EmitPlanEvent(PlanEvent(inv, "ERROR", NoPlan,
           "An unexpected error occurred during step execution"))
    /\ invocation' = [invocation EXCEPT ![inv].pc = "done"]
    /\ UNCHANGED <<handlerVars, gatewayVars, prerequisiteVars, skVars, enable_hitl, pending_plans, store_calls,
                   resume_signal>>

\* every step has completed: PLAN_EXECUTION_END
ExecutionEnd(inv) ==
    /\ invocation[inv].pc = "step"
    /\ invocation[inv].step > Len(invocation[inv].plan)
    /\ EmitPlanEvent(PlanEvent(inv, "PLAN_EXECUTION_END", NoPlan, ""))
    /\ invocation' = [invocation EXCEPT ![inv].pc = "done"]
    /\ UNCHANGED <<handlerVars, gatewayVars, prerequisiteVars, skVars, enable_hitl, pending_plans, store_calls,
                   resume_signal>>

PlanningNext ==
    \/ PlanningInvoke
    \/ GeneratePlanFails
    \/ GeneratePlan
    \/ GeneratePlanForApproval
    \/ SavePendingPlan
    \/ YieldApprovalPending
    \/ ApprovalTimeout
    \/ TimeoutDelete
    \/ ResumeSignalled
    \/ ResumeInvoke
    \/ ResumeGetAbsent
    \/ ResumeGet
    \/ ResumeApprove
    \/ ResumeEdit
    \/ ResumeCancel
    \/ ResumeDelete
    \/ \E inv \in Invocations : ExecutionStart(inv)
    \/ \E inv \in Invocations : StepCompletes(inv)
    \/ \E inv \in Invocations : StepRaises(inv)
    \/ \E inv \in Invocations : ExecutionEnd(inv)

\* one request id: the initial call and at most one resume call, with HITL
\* enabled or not; the team handler and the gateway not running
PlanningInit ==
    /\ HandlerInit
    /\ max_rounds = MaxRounds
    /\ GatewayIdle
    /\ enable_hitl \in BOOLEAN
    /\ PlanningIdle
    /\ PrerequisitesIdle
    /\ RemotePluginIdle
    /\ ConfigIdle
    /\ ClientIdle

PlanningSpec == PlanningInit /\ [][PlanningNext]_vars

\* the steps that need no new request: the timer of the approval wait runs
\* out, the event loop runs every call that can go on, the consumer takes
\* every event
PlanningProgress ==
    \/ GeneratePlanFails
    \/ GeneratePlan
    \/ GeneratePlanForApproval
    \/ SavePendingPlan
    \/ YieldApprovalPending
    \/ ApprovalTimeout
    \/ TimeoutDelete
    \/ ResumeSignalled
    \/ ResumeGetAbsent
    \/ ResumeGet
    \/ ResumeApprove
    \/ ResumeEdit
    \/ ResumeCancel
    \/ ResumeDelete
    \/ \E inv \in Invocations : ExecutionStart(inv)
    \/ \E inv \in Invocations : StepCompletes(inv) \/ StepRaises(inv)
    \/ \E inv \in Invocations : ExecutionEnd(inv)

\* no request is ever forced to arrive: a resume may never come
FairPlanningSpec == PlanningSpec /\ WF_vars(PlanningProgress)

\* ---------------------------- Conversation.get_prerequisites_for_task
\* GetPrerequisites answering with every item of a parent, whatever its role
GetPrerequisites_AnyRole ==
    /\ prerequisites = NotCalled
    /\ prerequisites' =
           GetPrerequisitesForTask(
               [k \in 1..Len(items) |-> [items[k] EXCEPT !.role = "AGENT"]],
               parent_ids)
    /\ UNCHANGED <<handlerVars, gatewayVars, planningVars, skVars, items,
                   parent_ids>>

\* the call conversation.get_prerequisites_for_task(task_id, parent_ids)
GetPrerequisites ==
    /\ prerequisites = NotCalled
    /\ prerequisites' = GetPrerequisitesForTask(items, parent_ids)
    /\ UNCHANGED <<handlerVars, gatewayVars, planningVars, skVars, items,
                   parent_ids>>

PrerequisitesNext == GetPrerequisites

\* any Conversation of at most MaxItems items, any list of distinct parent
\* ids
PrerequisitesInit ==
    /\ HandlerInit
    /\ max_rounds = MaxRounds
    /\ GatewayIdle
    /\ enable_hitl = FALSE
    /\ PlanningIdle
    /\ items \in SeqsUpTo(ConversationItems, MaxItems)
    /\ parent_ids \in ParentLists
    /\ prerequisites = NotCalled
    /\ RemotePluginIdle
    /\ ConfigIdle
    /\ ClientIdle

PrerequisitesSpec == PrerequisitesInit /\ [][PrerequisitesNext]_vars

\* ------------------------------------------------- RemotePlugin(**kwargs)
\* what a caller passes for each field: nothing, None, the empty string or
\* a value
OpenapiJsonPaths == {Missing, None, "", "/path/to/openapi.json"}
McpPluginTypes == {Missing, None, "", "stdio", "sse", "invalid_type"}
McpCommands == {Missing, None, "", "python server.py"}
McpUrls == {Missing, None, "", "http://localhost:5000/sse"}
Kwargs ==
    [plugin_name : {"TestPlugin"}, openapi_json_path : OpenapiJsonPaths,
     mcp_plugin_type : McpPluginTypes, mcp_command : McpCommands,
     mcp_url : McpUrls]

\* the validated fields in the order the class declares them, which is the
\* order in which the fields are validated
FieldOrder ==
    <<"openapi_json_path", "mcp_plugin_type", "mcp_command", "mcp_url">>

\* bool(value) of a str | None
Truthy(value) == value \notin {None, ""}
\* values.data.get(name): data holds the fields validated so far
DataGet(data, name) == IF name \in DOMAIN data THEN data[name] ELSE None

NoError == "no error"
validate_mcp_plugin_type(value) ==
    IF Truthy(value) /\ value \notin {"stdio", "sse"}
    THEN "mcp_plugin_type must be \"stdio\" or \"sse\""
    ELSE NoError
validate_mcp_command(value, data) ==
    IF DataGet(data, "mcp_plugin_type") = "stdio" /\ ~Truthy(value)
    THEN "mcp_command must be set if mcp_plugin_type is 'stdio'"
    ELSE NoError
validate_mcp_url(value, data) ==
    IF DataGet(data, "mcp_plugin_type") = "sse" /\ ~Truthy(value)
    THEN "mcp_url must be set if mcp_plugin_type is 'sse'"
    ELSE NoError
validate_openapi_json_path(value, data) ==
    IF Truthy(DataGet(data, "mcp_plugin_type")) /\ Truthy(value)
    THEN "openapi_json_path should not be set if mcp_plugin_type is set"
    ELSE IF ~Truthy(DataGet(data, "mcp_plugin_type")) /\ ~Truthy(value)
    THEN "openapi_json_path must be set if mcp_plugin_type is not set"
    ELSE NoError
\* the field_validator registered for a field
FieldValidator(name, value, data) ==
    CASE name = "openapi_json_path" -> validate_openapi_json_path(value, data)
      [] name = "mcp_plugin_type" -> validate_mcp_plugin_type(value)
      [] name = "mcp_command" -> validate_mcp_command(value, data)
      [] name = "mcp_url" -> validate_mcp_url(value, data)

\* BaseModel.__init__: the fields are validated in the order of FieldOrder;
\* a field that is not passed takes its default None and its field_validator
\* is not called (no field sets validate_default); a field whose validator
\* raises is left out of data and validation goes on with the next field
RECURSIVE ValidateFields(_, _, _, _)
ValidateFields(kw, k, data, errors) ==
    IF k > Len(FieldOrder)
    THEN [data |-> data, errors |-> errors]
    ELSE LET name == FieldOrder[k]
             value == kw[name]
             With(v) == [n \in DOMAIN data \cup {name} |->
                            IF n = name THEN v ELSE data[n]]
         IN  IF value = Missing
             THEN ValidateFields(kw, k + 1, With(None), errors)
             ELSE IF FieldValidator(name, value, data) = NoError
             THEN ValidateFields(kw, k + 1, With(value), errors)
             ELSE ValidateFields(kw, k + 1, data,
                      errors \cup {FieldValidator(name, value, data)})

\* RemotePlugin(**kwargs): the instance, or a ValidationError carrying the
\* message of every validator that raised
Construct(kw) ==
    LET r == ValidateFields(kw, 1,
                 [n \in {"plugin_name"} |-> kw.plugin_name], {})
    IN  IF r.errors = {}
        THEN [status |-> "RemotePlugin", errors |-> {}, fields |-> r.data]
        ELSE [status |-> "ValidationError", errors |-> r.errors,
              fields |-> [n \in {} |-> None]]

\* the call RemotePlugin(**kwargs)
RemotePluginConstruct ==
    /\ plugin = NotConstructed
    /\ plugin' = Construct(kwargs)
    /\ UNCHANGED <<handlerVars, gatewayVars, planningVars, prerequisiteVars,
                   configVars, clientVars, kwargs>>

RemotePluginNext == RemotePluginConstruct

\* any combination of keyword arguments; nothing else running
RemotePluginInit ==
    /\ HandlerInit
    /\ max_rounds = MaxRounds
    /\ GatewayIdle
    /\ enable_hitl = FALSE
    /\ PlanningIdle
    /\ PrerequisitesIdle
    /\ kwargs \in Kwargs
    /\ plugin = NotConstructed
    /\ ConfigIdle
    /\ ClientIdle

RemotePluginSpec == RemotePluginInit /\ [][RemotePluginNext]_vars

\* ------------------------------------------- Config.get_agent_mcp_servers
MaxServers == 2
MaxAgents == 2
ServerNames == {"filesystem", "github"}
McpAgentNames == {"agentA", "agentB"}
\* the entries of spec.mcp_servers and those of an agent's mcp_servers: a
\* dict with a name; the command tells the two origins apart
GlobalServers == [name : ServerNames, command : {"global-cmd"}]
AgentServers == [name : ServerNames, command : {"agent-cmd"}]
OptionalLists(S) == {NoneList} \cup {Some(l) : l \in SeqsUpTo(S, MaxServers)}
AgentConfigs == [name : McpAgentNames, mcp_servers : OptionalLists(AgentServers)]

\* bool(x) of a list[dict] | None
TruthyList(x) == ~x.none /\ x.servers # <<>>
\* the loop over self.get_agents(): the mcp_servers of the first agent of
\* that name whose mcp_servers is not empty, [] when there is none
RECURSIVE AgentMcp(_, _, _)
AgentMcp(agents, name, k) ==
    IF k > Len(agents) THEN <<>>
    ELSE IF agents[k].name = name /\ TruthyList(agents[k].mcp_servers)
    THEN agents[k].mcp_servers.servers
    ELSE AgentMcp(agents, name, k + 1)

\* Config.get_agent_mcp_servers(agent_name)
GetAgentMcpServers(mcp_servers, agents, name) ==
    LET global_mcp == IF TruthyList(mcp_servers)
                      THEN mcp_servers.servers ELSE <<>>
        agent_mcp == AgentMcp(agents, name, 1)
    IN  IF global_mcp # <<>> /\ agent_mcp # <<>>
        THEN Some(global_mcp \o agent_mcp)
        ELSE IF agent_mcp # <<>> THEN Some(agent_mcp)
        ELSE IF global_mcp # <<>> THEN Some(global_mcp)
        ELSE NoneList

\* the call config.get_agent_mcp_servers(agent_name)
GetAgentMcpServersCall ==
    /\ merged = NotMerged
    /\ merged' = [called |-> TRUE,
                  value |-> GetAgentMcpServers(spec_mcp_servers, spec_agents,
                                               for_agent)]
    /\ UNCHANGED <<handlerVars, gatewayVars, planningVars, prerequisiteVars,
                   pluginVars, clientVars, spec_mcp_servers, spec_agents,
                   for_agent>>

ConfigNext == GetAgentMcpServersCall

\* any global list, any list of at most MaxAgents agents, any agent name
ConfigInit ==
    /\ HandlerInit
    /\ max_rounds = MaxRounds
    /\ GatewayIdle
    /\ enable_hitl = FALSE
    /\ PlanningIdle
    /\ PrerequisitesIdle
    /\ RemotePluginIdle
    /\ spec_mcp_servers \in OptionalLists(GlobalServers)
    /\ spec_agents \in SeqsUpTo(AgentConfigs, MaxAgents)
    /\ for_agent \in McpAgentNames
    /\ merged = NotMerged
    /\ ClientIdle

ConfigSpec == ConfigInit /\ [][ConfigNext]_vars

\* ------------------------------------------------------ SimplifiedMCPClient
\* the largest max_retries configured and the number of calls made
MaxRetries == 2
MaxCalls == 3

\* how far one connection attempt (_initialize_stdio and the like) gets: the
\* connection context is not entered, the ClientSession is not entered,
\* session.initialize() fails, or everything succeeds
AttemptOutcomes ==
    {"enter_context fails", "enter_session fails",
     "session.initialize fails", "connected"}
\* what a failing await raises: asyncio.TimeoutError or another Exception
FailureKinds == {"TimeoutError", "Exception"}
\* the exception initialize wraps a failure into
Wrapped(kind) ==
    IF kind = "TimeoutError" THEN "MCPTimeoutError" ELSE "MCPConnectionError"

ClientFrame == <<handlerVars, gatewayVars, planningVars, prerequisiteVars,
                 pluginVars, configVars, mcp_max_retries,
                 graceful_degradation>>

\* the call ends: the state between two calls of the client
EndCall(call, outcome, attempts, was_initialized, via) ==
    /\ client_result' = [call |-> call, outcome |-> outcome,
                         attempts |-> attempts,
                         was_initialized |-> was_initialized, session |-> via]
    /\ client_pc' = "idle"
    /\ caller' = "none"

\* await client.initialize(): returns at once when already initialized,
\* otherwise resets the attempt counter and enters the retry loop
ClientInitialize ==
    /\ client_pc = "idle"
    /\ client_calls < MaxCalls
    /\ client_calls' = client_calls + 1
    /\ IF initialized
       THEN /\ EndCall("initialize", "returned", 0, TRUE, 0)
            /\ UNCHANGED <<connection_attempts, mcp_last_exception>>
       ELSE /\ connection_attempts' = 0
            /\ mcp_last_exception' = None
            /\ client_pc' = "loop"
            /\ caller' = "initialize"
            /\ UNCHANGED client_result
    /\ UNCHANGED <<ClientFrame, session, connection_context, initialized,
                   last_error, entered_contexts, entered_sessions,
                   contexts_created>>

\* one pass of the while loop of initialize: a new connection context is
\* assigned to self.connection_context and entered, a ClientSession is
\* entered and assigned to self.session, session.initialize() is awaited.
\* A failure at any of the three awaits is caught and wrapped; nothing that
\* was entered before the failure is exited and self.session keeps what was
\* assigned
ConnectionAttempt ==
    /\ client_pc = "loop"
    /\ connection_attempts < mcp_max_retries
    /\ connection_attempts' = connection_attempts + 1
    /\ contexts_created' = contexts_created + 1
    /\ connection_context' = contexts_created + 1
    /\ \E outcome \in AttemptOutcomes, kind \in FailureKinds :
           /\ entered_contexts' =
                  IF outcome = "enter_context fails" THEN entered_contexts
                  ELSE entered_contexts \cup {contexts_created + 1}
           /\ IF outcome \in {"session.initialize fails", "connected"}
              THEN /\ session' = contexts_created + 1
                   /\ entered_sessions' =
                          entered_sessions \cup {contexts_created + 1}
              ELSE UNCHANGED <<session, entered_sessions>>
           /\ IF outcome = "connected"
              THEN /\ initialized' = TRUE
                   /\ last_error' = None
                   /\ UNCHANGED mcp_last_exception
                   /\ IF caller = "initialize"
                      THEN EndCall("initialize", "returned",
                                   connection_attempts + 1, FALSE, 0)
                      ELSE /\ client_pc' = "list_check"
                           /\ UNCHANGED <<caller, client_result>>
              ELSE /\ mcp_last_exception' = Wrapped(kind)
                   /\ client_pc' =
                          IF connection_attempts + 1 < mcp_max_retries
                          THEN "sleep" ELSE "loop"
                   /\ UNCHANGED <<initialized, last_error, caller,
                                  client_result>>
    /\ UNCHANGED <<ClientFrame, client_calls>>

\* asyncio.sleep(retry_delay) between two attempts returns
RetrySleepReturns ==
    /\ client_pc = "sleep"
    /\ client_pc' = "loop"
    /\ UNCHANGED <<ClientFrame, session, connection_context, initialized,
                   connection_attempts, last_error, mcp_last_exception,
                   caller, client_result, entered_contexts, entered_sessions,
                   contexts_created, client_calls>>

\* the loop condition fails without a success: self._last_error is set and
\* initialize returns (graceful degradation) or executes
\* `raise last_exception`, which raises TypeError when last_exception is
\* None; list_tools awaits initialize outside its try block
RetriesExhausted ==
    /\ client_pc = "loop"
    /\ connection_attempts >= mcp_max_retries
    /\ last_error' = mcp_last_exception
    /\ IF graceful_degradation
       THEN IF caller = "initialize"
            THEN EndCall("initialize", "returned", connection_attempts,
                         FALSE, 0)
            ELSE /\ client_pc' = "list_check"
                 /\ UNCHANGED <<caller, client_result>>
       ELSE EndCall(caller,
                    IF mcp_last_exception = None THEN "raised TypeError"
                    ELSE "raised " \o mcp_last_exception,
                    connection_attempts, FALSE, 0)
    /\ UNCHANGED <<ClientFrame, session, connection_context, initialized,
                   connection_attempts, mcp_last_exception, entered_contexts,
                   entered_sessions, contexts_created, client_calls>>

\* await client.list_tools(): initialize is awaited first when the client
\* is not initialized
ListTools ==
    /\ client_pc = "idle"
    /\ client_calls < MaxCalls
    /\ client_calls' = client_calls + 1
    /\ caller' = "list_tools"
    /\ IF initialized
       THEN /\ client_pc' = "list_check"
            /\ UNCHANGED <<connection_attempts, mcp_last_exception>>
       ELSE /\ connection_attempts' = 0
            /\ mcp_last_exception' = None
            /\ client_pc' = "loop"
    /\ UNCHANGED <<ClientFrame, session, connection_context, initialized,
                   last_error, client_result, entered_contexts,
                   entered_sessions, contexts_created>>

\* list_tools after the initialization: without a session an empty list is
\* returned or MCPConnectionError raised; with one, session.list_tools() is
\* awaited through it and its result returned, or its failure answered by
\* an empty list or a wrapped exception
ListToolsCall ==
    /\ client_pc = "list_check"
    /\ IF session = 0
       THEN EndCall("list_tools",
                    IF graceful_degradation THEN "empty tools"
                    ELSE "raised MCPConnectionError",
                    0, initialized, 0)
       ELSE \E answer \in {"tools"} \cup FailureKinds :
                EndCall("list_tools",
                        IF answer = "tools" THEN "tools"
                        ELSE IF graceful_degradation THEN "empty tools"
                        ELSE "raised " \o Wrapped(answer),
                        0, initialized, session)
    /\ UNCHANGED <<ClientFrame, session, connection_context, initialized,
                   connection_attempts, last_error, mcp_last_exception,
                   entered_contexts, entered_sessions, contexts_created,
                   client_calls>>

\* await client.cleanup(): self.session and self.connection_context are
\* exited when set (an exception of __aexit__ is logged), then the three
\* fields are reset
Cleanup ==
    /\ client_pc = "idle"
    /\ client_calls < MaxCalls
    /\ client_calls' = client_calls + 1
    /\ entered_sessions' = entered_sessions \ {session}
    /\ entered_contexts' = entered_contexts \ {connection_context}
    /\ initialized' = FALSE
    /\ session' = 0
    /\ connection_context' = 0
    /\ EndCall("cleanup", "returned", 0, initialized, 0)
    /\ UNCHANGED <<ClientFrame, connection_attempts, last_error,
                   mcp_last_exception, contexts_created>>

ClientNext ==
    \/ ClientInitialize
    \/ ConnectionAttempt
    \/ RetrySleepReturns
    \/ RetriesExhausted
    \/ ListTools
    \/ ListToolsCall
    \/ Cleanup

\* a new client with any max_retries up to MaxRetries, with or without
\* graceful degradation; nothing else running
ClientInit ==
    /\ HandlerInit
    /\ max_rounds = MaxRounds
    /\ GatewayIdle
    /\ enable_hitl = FALSE
    /\ PlanningIdle
    /\ PrerequisitesIdle
    /\ RemotePluginIdle
    /\ ConfigIdle
    /\ mcp_max_retries \in 0..MaxRetries
    /\ graceful_degradation \in BOOLEAN
    /\ ClientConstructed

ClientSpec == ClientInit /\ [][ClientNext]_vars

\* ------------------------------------------------------- properties checked
Max(a, b) == IF a >= b THEN a ELSE b
EventIds == 1..Len(events)
LastEvent == events[Len(events)]
\* the manager call of the current round returned this action
Decided(action) ==
    /\ determine_action_task.state = "returned"
    /\ determine_action_task.value.next_action = action
\* the ErrorResponse events yielded in round r
ErrorsOfRound(r) ==
    {i \in EventIds : events[i].round = r /\ events[i].payload = "ErrorResponse"}
\* the events the task executor yielded in round r
TaskEventsOfRound(r) ==
    {i \in EventIds : events[i].round = r
                      /\ events[i].origin \in {"executor", "execute_task"}}

\* C1 (as amended): the limit is tested only after a round, so round 0 always
\* runs; invoke executes at most max(1, max_rounds) ASSIGN_NEW_TASK rounds,
\* starts no task and asks the manager nothing in a round numbered
\* max(1, max_rounds) or higher, and the stream ends.
C1_RoundsBounded ==
    /\ [](/\ executor_calls <= Max(1, max_rounds)
          /\ manager_calls <= Max(1, max_rounds)
          /\ round_no <= Max(1, max_rounds)
          /\ \A i \in EventIds :
                 events[i].type = "AGENT_REQUEST"
                     => events[i].round < Max(1, max_rounds))
    /\ <>(pc = "done")

\* C1 as stated: no task is started in a round numbered max_rounds or
\* higher, at most max_rounds ASSIGN_NEW_TASK rounds run, the stream ends.
C1_AsStated ==
    /\ [](/\ executor_calls <= max_rounds
          /\ \A i \in EventIds :
                 events[i].type = "AGENT_REQUEST"
                     => events[i].round < max_rounds)
    /\ <>(pc = "done")

\* the round budget is used up: max_rounds >= 2 rounds each ran a task and
\* the stream ended on the limit
C1_Witness ==
    /\ pc = "done"
    /\ max_rounds >= 2
    /\ executor_calls = max_rounds
    /\ round_no = max_rounds
    /\ Cardinality({i \in EventIds : events[i].type = "AGENT_REQUEST"})
           = max_rounds

\* C2: when the manager returns PROVIDE_RESULT the stream ends with exactly
\* one final InvokeResponse of the handler whose content is the content the
\* action carries, and no task ran in that round.
C2_ProvideResult ==
    (pc = "done" /\ Decided("PROVIDE_RESULT")) =>
        /\ ~propagated
        /\ LastEvent.type = "FINAL_RESPONSE"
        /\ LastEvent.payload = "InvokeResponse"
        /\ LastEvent.origin = "handler"
        /\ LastEvent.detail = manager_output.content
        /\ Cardinality({i \in EventIds :
                            /\ events[i].origin = "handler"
                            /\ events[i].type = "FINAL_RESPONSE"}) = 1
        /\ TaskEventsOfRound(round_no) = {}

\* C3: a manager ABORT yields an AbortResult with the manager's reason as
\* the last event; no task ran in that round, the manager is not asked
\* again, and the stream ends without an exception.
C3_Abort ==
    /\ (pc = "done" /\ Decided("ABORT")) =>
           /\ LastEvent.payload = "AbortResult"
           /\ LastEvent.origin = "handler"
           /\ LastEvent.prefix = ""
    /\ \A i \in EventIds :
           (events[i].payload = "AbortResult" /\ events[i].prefix = "") =>
               /\ i = Len(events)
               /\ pc = "done"
               /\ ~propagated
               /\ Decided("ABORT")
               /\ events[i].detail = determine_action_task.value.abort_reason
               /\ events[i].round = round_no
               /\ TaskEventsOfRound(events[i].round) = {}
               /\ ErrorsOfRound(events[i].round) = {}
               /\ manager_calls = events[i].round + 1
               /\ executor_calls = events[i].round

\* the manager aborted in a round after a task had run
C3_Witness ==
    /\ pc = "done"
    /\ Decided("ABORT")
    /\ round_no >= 1
    /\ LastEvent.payload = "AbortResult"
    /\ LastEvent.detail = "cannot fulfil"

\* C4: no exception leaves invoke; every failure is delivered as an
\* ErrorResponse and the stream then ends: the ErrorResponse is the last
\* event and no manager call follows it.
C4_NoExceptionEscapes ==
    /\ ~propagated
    /\ \A i \in EventIds :
           events[i].payload = "ErrorResponse" =>
               /\ i = Len(events)
               /\ manager_calls = events[i].round + 1

\* C5: a failing task yields exactly one ErrorResponse in its round and
\* that ends the stream: the manager is not asked again and no further task
\* is started.
C5_TaskFailureEndsStream ==
    \A i \in EventIds :
        (/\ events[i].payload = "ErrorResponse"
         /\ events[i].origin \in {"executor", "execute_task"}) =>
            /\ ErrorsOfRound(events[i].round) = {i}
            /\ manager_calls = events[i].round + 1
            /\ executor_calls = events[i].round + 1

\* C6: when the manager call raises, exactly one ErrorResponse carrying the
\* exception's message is yielded as the last event of the stream, with no
\* MANAGER_RESPONSE in that round and no further manager or task call.
C6_ManagerError ==
    /\ (pc = "done" /\ determine_action_task.state = "raised") =>
           /\ LastEvent.payload = "ErrorResponse"
           /\ LastEvent.origin = "handler"
           /\ LastEvent.status_code = 500
    /\ \A i \in EventIds :
           (/\ events[i].payload = "ErrorResponse"
            /\ events[i].origin = "handler"
            /\ events[i].status_code = 500) =>
               /\ i = Len(events)
               /\ pc \in {"manager_error", "done"}
               /\ ~propagated
               /\ determine_action_task.state = "raised"
               /\ events[i].detail = determine_action_task.value
               /\ events[i].round = round_no
               /\ ErrorsOfRound(events[i].round) = {i}
               /\ \A j \in EventIds :
                      events[j].round = events[i].round =>
                          events[j].type # "MANAGER_RESPONSE"
               /\ TaskEventsOfRound(events[i].round) = {}
               /\ manager_calls = events[i].round + 1
               /\ executor_calls = events[i].round

\* the manager call raised in a round after a task had run
C6_Witness ==
    /\ pc = "done"
    /\ determine_action_task.state = "raised"
    /\ round_no >= 1
    /\ LastEvent.detail = "exploded"

\* C7: when the round counter reaches max_rounds after an ASSIGN_NEW_TASK
\* round, the last event is an ErrorResponse, not an AbortResult, and the
\* manager is not called again.
C7_MaxRoundsIsError ==
    (pc = "done" /\ round_no > 0 /\ round_no >= max_rounds) =>
        /\ LastEvent.payload = "ErrorResponse"
        /\ manager_calls = round_no

\* C8: when the stream has ended a TEAM_EXECUTION_END event was yielded, and
\* TEAM_EXECUTION_START is yielded exactly once, in round 0.
C8_ExecutionEndEmitted ==
    /\ pc = "done" =>
           \E i \in EventIds : events[i].type = "TEAM_EXECUTION_END"
    /\ events # <<>> =>
           /\ Cardinality({i \in EventIds :
                               events[i].type = "TEAM_EXECUTION_START"}) = 1
           /\ \A i \in EventIds :
                  events[i].type = "TEAM_EXECUTION_START"
                      => events[i].round = 0

RECURSIVE IsSubsequence(_, _)
\* the elements of s occur in t in the same order
IsSubsequence(s, t) ==
    IF s = <<>> THEN TRUE
    ELSE IF t = <<>> THEN FALSE
    ELSE IF Head(s) = Head(t) THEN IsSubsequence(Tail(s), Tail(t))
    ELSE IsSubsequence(s, Tail(t))

EventTypes == [i \in EventIds |-> events[i].type]
\* the actions of the MANAGER_RESPONSE events, in order
Decisions ==
    LET m == SelectSeq(events, LAMBDA e : e.type = "MANAGER_RESPONSE")
    IN  [i \in 1..Len(m) |-> m[i].detail]

\* C9: a run ASSIGN_NEW_TASK (task succeeds) then PROVIDE_RESULT yields, in
\* this order, TEAM_EXECUTION_START, MANAGER_ACTION_START, AGENT_TASK_START,
\* AGENT_TASK_END, MANAGER_ACTION_END, MANAGER_ACTION_START, the final
\* InvokeResponse, MANAGER_ACTION_END, TEAM_EXECUTION_END, with two manager
\* calls and one task executor call.
C9_AssignThenResult ==
    (/\ pc = "done"
     /\ ~propagated
     /\ Decisions = <<"ASSIGN_NEW_TASK", "PROVIDE_RESULT">>
     /\ ErrorsOfRound(0) = {}) =>
        /\ IsSubsequence(<<"TEAM_EXECUTION_START", "MANAGER_ACTION_START",
                           "AGENT_TASK_START", "AGENT_TASK_END",
                           "MANAGER_ACTION_END", "MANAGER_ACTION_START",
                           "FINAL_RESPONSE", "MANAGER_ACTION_END",
                           "TEAM_EXECUTION_END">>, EventTypes)
        /\ manager_calls = 2
        /\ executor_calls = 1

\* C10: an action outside ASSIGN_NEW_TASK, PROVIDE_RESULT, ABORT yields one
\* ErrorResponse of status 4xx as the last event and ends the stream in that
\* round; no task runs and no other action's event is yielded.
C10_UnknownAction ==
    /\ (/\ pc = "done"
        /\ determine_action_task.state = "returned"
        /\ determine_action_task.value.next_action \notin Actions) =>
           /\ LastEvent.payload = "ErrorResponse"
           /\ LastEvent.origin = "handler"
           /\ LastEvent.status_code \in 400..499
    /\ \A i \in EventIds :
           (/\ events[i].payload = "ErrorResponse"
            /\ events[i].prefix = "Unknown action: ") =>
               /\ i = Len(events)
               /\ pc = "done"
               /\ ~propagated
               /\ events[i].status_code \in 400..499
               /\ events[i].detail = determine_action_task.value.next_action
               /\ events[i].detail \notin Actions
               /\ events[i].round = round_no
               /\ ErrorsOfRound(events[i].round) = {i}
               /\ TaskEventsOfRound(events[i].round) = {}
               /\ \A j \in EventIds :
                      events[j].round = events[i].round =>
                          /\ events[j].payload # "AbortResult"
                          /\ events[j].type # "FINAL_RESPONSE"
               /\ manager_calls = events[i].round + 1
               /\ executor_calls = events[i].round

\* the manager returned an unknown action in a round after a task had run
C10_Witness ==
    /\ pc = "done"
    /\ determine_action_task.state = "returned"
    /\ determine_action_task.value.next_action = UnknownAction
    /\ round_no >= 1
    /\ LastEvent.status_code = 400

\* the rounds in which execute_task_sse was called and has been consumed to
\* completion
FinishedTaskRounds ==
    {r \in 0..round_no :
        /\ \E i \in EventIds : /\ events[i].round = r
                               /\ events[i].type = "MANAGER_RESPONSE"
                               /\ events[i].detail = "ASSIGN_NEW_TASK"
        /\ \/ r < round_no
           \/ pc = "round_end"}
\* the terminal events execute_task_sse itself yielded in round r
TerminalEventsOfRound(r) ==
    {i \in EventIds : /\ events[i].round = r
                      /\ events[i].origin = "executor"
                      /\ \/ events[i].type = "FINAL_RESPONSE"
                         \/ events[i].payload = "ErrorResponse"}
\* execute_task_sse found the agent and yielded AGENT_REQUEST in round r
AgentFoundInRound(r) ==
    \E i \in EventIds : /\ events[i].round = r
                         /\ events[i].type = "AGENT_REQUEST"

\* C11 (as amended): a run of execute_task_sse for a registered agent name,
\* consumed to completion, yields exactly one terminal event, a final
\* InvokeResponse or an ErrorResponse, whatever the agent call returns or
\* raises; for an unregistered name the lookup raises before anything is
\* yielded, the run yields no event at all and the exception reaches the
\* caller (_execute_task reports it).
C11_OneTerminalEvent ==
    /\ \A r \in 0..round_no : Cardinality(TerminalEventsOfRound(r)) <= 1
    /\ \A r \in FinishedTaskRounds :
           IF AgentFoundInRound(r)
           THEN /\ Cardinality(TerminalEventsOfRound(r)) = 1
                /\ \A i \in EventIds :
                       (events[i].round = r /\ events[i].type = "AGENT_REQUEST")
                           => events[i].detail \in RegisteredAgents
           ELSE /\ \A i \in EventIds :
                       events[i].round = r => events[i].origin # "executor"
                /\ \E i \in EventIds :
                       /\ events[i].round = r
                       /\ events[i].origin = "execute_task"
                       /\ events[i].detail \notin RegisteredAgents

\* C11 as stated: every run consumed to completion yields exactly one
\* terminal event, whichever agent name is requested.
C11_AsStated ==
    \A r \in FinishedTaskRounds : Cardinality(TerminalEventsOfRound(r)) = 1

\* one finished run ended in an ErrorResponse, another in a final
\* InvokeResponse
C11_Witness ==
    /\ \E r \in FinishedTaskRounds :
           \E i \in TerminalEventsOfRound(r) :
               events[i].payload = "ErrorResponse"
    /\ \E r \in FinishedTaskRounds :
           \E i \in TerminalEventsOfRound(r) :
               events[i].type = "FINAL_RESPONSE"

\* C12: when the agent call raises or its response does not decode, the
\* ErrorResponse carries the exception detail and the Conversation is left
\* unchanged: result items are appended only by successful tasks, with the
\* decoded result.  (Between the terminal event and
\* the return of the generator, pc = "task_final", the item of a successful
\* task is still to be appended.)
C12_NoItemOnError ==
    /\ \A k \in 1..Len(conversation) : conversation[k].result \in Results
    /\ pc # "task_final" =>
       Len(conversation) =
           Cardinality({i \in EventIds : /\ events[i].origin = "executor"
                                         /\ events[i].type = "FINAL_RESPONSE"})

\* the attempts made so far all timed out
AllTimedOut(n) == \A k \in 1..n : posts[k].kind = "timeout"

\* C13: for every N in 1..max_retries, when the first N - 1 attempts time
\* out and attempt N succeeds, invoke_agent returns the response of attempt
\* N after exactly N attempts (and N - 1 one-second sleeps); it never gives
\* up on timeouts before max_retries attempts were made.
C13_RetryThenSuccess ==
    /\ (gw_pc = "returned" /\ AllTimedOut(Len(posts) - 1)) =>
           /\ Len(posts) \in 1..max_retries
           /\ posts[Len(posts)].kind = "ok"
           /\ gw_result = [kind |-> "returned",
                           value |-> posts[Len(posts)].value]
           /\ attempt = Len(posts) - 1
           /\ sleeps = Len(posts) - 1
    /\ (gw_pc = "raised" /\ AllTimedOut(Len(posts))) =>
           Len(posts) >= max_retries
    /\ (gw_pc = "loop" /\ AllTimedOut(Len(posts))
                       /\ Len(posts) < max_retries) => ENABLED LoopEnter

\* two timeouts, then the third and last permitted attempt succeeded
C13_Witness ==
    /\ gw_pc = "returned"
    /\ Len(posts) = max_retries
    /\ AllTimedOut(max_retries - 1)
    /\ gw_result.value = posts[max_retries].value

\* C14: when every attempt fails, invoke_agent makes exactly max_retries
\* attempts and then raises the error observed on the last attempt (the
\* underlying timeout when that attempt timed out), never a generic wrapper;
\* timeouts and other failures count against the same bound.
C14_RaisesLastError ==
    /\ Len(posts) <= max_retries
    /\ gw_pc = "raised" =>
           /\ Len(posts) = max_retries
           /\ \A k \in 1..Len(posts) : posts[k].kind \in {"timeout", "error"}
           /\ gw_result = [kind |-> "raised",
                           value |-> posts[max_retries].value]
           /\ gw_result.value # MaxRetriesExceeded
           /\ posts[max_retries].kind = "timeout" =>
                  gw_result.value \in TimeoutExceptions
    /\ (gw_pc = "loop" /\ Len(posts) < max_retries) => ~ENABLED LoopExit

\* a timeout, another failure and a last timeout: the last timeout is raised
C14_Witness ==
    /\ gw_pc = "raised"
    /\ posts[1].kind = "timeout"
    /\ posts[2].kind = "error"
    /\ posts[3].kind = "timeout"
    /\ gw_result.value = posts[3].value

\* the keepalives execute_task_sse yielded in round r
KeepalivesOfRound(r) ==
    {i \in EventIds : /\ events[i].round = r
                      /\ events[i].origin = "executor"
                      /\ events[i].type = "keepalive"}
\* in round r the first heartbeat period of the task ended while the agent
\* call was still outstanding
OutlastsHeartbeat(r) ==
    /\ round_no = r
    /\ pc = "task_wait"
    /\ perform_task.state = "pending"
    /\ keepalive_queue > 0
\* in round r the agent call is over and no heartbeat period of the task
\* has ended yet
CompletedBeforeHeartbeat(r) ==
    /\ round_no = r
    /\ pc = "task_wait"
    /\ perform_task.state # "pending"
    /\ keepalive_queue = 0
    /\ KeepalivesOfRound(r) = {}

\* C15: execute_task_sse yields at least one keepalive when the agent call
\* outlasts the heartbeat period, and no keepalive at all when the call
\* completes before the first heartbeat period has elapsed.
C15_KeepaliveIffOutlasts ==
    \A r \in 0..MaxRounds :
        /\ [](OutlastsHeartbeat(r) => <>(KeepalivesOfRound(r) # {}))
        /\ [](CompletedBeforeHeartbeat(r) => [](KeepalivesOfRound(r) = {}))

PlanEventIds == 1..Len(plan_events)
\* the events one call of invoke yielded, in order
EventsOf(inv) == SelectSeq(plan_events, LAMBDA e : e.inv = inv)
\* the positions of the events of a type
PlanEventsOfType(type) == {i \in PlanEventIds : plan_events[i].type = type}
ResumeOutcomes == {"PLAN_APPROVED", "PLAN_EDITED", "PLAN_CANCELLED"}

\* C16: the resume path and the timeout path race for the pending entry of
\* one request id; at most one of them consumes and deletes it: never both a
\* PLAN_APPROVAL_TIMEOUT and an approval, edit or cancellation of the same
\* plan, and never a delete by both calls.
C16_OneConsumer ==
    /\ ~(/\ PlanEventsOfType("PLAN_APPROVAL_TIMEOUT") # {}
         /\ \E i \in PlanEventIds : plan_events[i].type \in ResumeOutcomes)
    /\ ~(/\ store_calls["initial"].delete > 0
         /\ store_calls["resume"].delete > 0)

\* the resume call found the entry and took one of its three branches
ResumeConsumed ==
    \E i \in PlanEventIds : /\ plan_events[i].inv = "resume"
                            /\ plan_events[i].type \in ResumeOutcomes

\* C17: in every resume branch (APPROVE, EDIT, CANCEL) the entry is deleted
\* exactly once after being consumed: the resume call issues no second
\* delete, has issued its one delete before it executes a step, and when it
\* has ended the entry is absent, also when a step failed.
C17_ResumeDeletesOnce ==
    /\ store_calls["resume"].delete <= 1
    /\ store_calls["resume"].delete = 1 => ResumeConsumed
    /\ (ResumeConsumed /\ invocation["resume"].pc \in {"execute", "step",
                                                        "done"}) =>
           /\ store_calls["resume"].delete = 1
           /\ pending_plans = NoPlan

\* an approved plan whose first step failed: the resume call has ended
C17_Witness ==
    /\ ResumeConsumed
    /\ invocation["resume"].pc = "done"
    /\ invocation["resume"].hitl_resume_type = "APPROVE"
    /\ plan_events[Len(plan_events)].inv = "resume"
    /\ plan_events[Len(plan_events)].type = "ERROR"
    /\ store_calls["resume"].delete = 1

\* C18: with HITL enabled and should_wait_for_user true the initial call
\* saves exactly one entry, yields exactly one PLAN_APPROVAL_PENDING carrying
\* the plan, after the save, and yields no PLAN_EXECUTION_START.
C18_InitialCallWaits ==
    /\ store_calls["initial"].save <= 1
    /\ Cardinality(PlanEventsOfType("PLAN_APPROVAL_PENDING")) <= 1
    /\ \A i \in PlanEventsOfType("PLAN_APPROVAL_PENDING") :
           /\ store_calls["initial"].save = 1
           /\ plan_events[i].inv = "initial"
           /\ plan_events[i].plan = invocation["initial"].plan
           /\ plan_events[i].plan \in GeneratedPlans
    /\ (enable_hitl /\ invocation["initial"].should_wait) =>
           /\ \A i \in PlanEventIds :
                  plan_events[i].inv = "initial" =>
                      plan_events[i].type # "PLAN_EXECUTION_START"
           /\ invocation["initial"].pc \in {"waiting", "timeout_delete",
                                            "done"} =>
                  /\ store_calls["initial"].save = 1
                  /\ Cardinality(PlanEventsOfType("PLAN_APPROVAL_PENDING"))
                         = 1

\* the initial call has ended after waiting for an approval
C18_Witness ==
    /\ enable_hitl
    /\ invocation["initial"].should_wait
    /\ invocation["initial"].pc = "done"
    /\ PlanEventsOfType("PLAN_APPROVAL_PENDING") # {}

\* the types of the events a call yielded, in order
TypesOf(inv) == [i \in 1..Len(EventsOf(inv)) |-> EventsOf(inv)[i].type]
\* PLAN_EXECUTION_START, one event per step, PLAN_EXECUTION_END
CompleteExecution(plan) ==
    <<"PLAN_EXECUTION_START">>
        \o [k \in 1..Len(plan) |-> "STEP_EXECUTION_END"]
        \o <<"PLAN_EXECUTION_END">>

\* C19: an APPROVE resume that finds the stored entry yields PLAN_APPROVED,
\* then PLAN_EXECUTION_START, then, every step having completed,
\* PLAN_EXECUTION_END, in this order, and executes the stored plan: the plan
\* the initial call saved.
C19_ApproveExecutesStoredPlan ==
    (/\ invocation["resume"].hitl_resume_type = "APPROVE"
     /\ invocation["resume"].plan # NoPlan
     /\ invocation["resume"].pc # "branch") =>
        /\ EventsOf("resume") # <<>>
        /\ EventsOf("resume")[1].type = "PLAN_APPROVED"
        /\ invocation["resume"].plan = invocation["initial"].plan
        /\ \A i \in 1..Len(EventsOf("resume")) :
               /\ EventsOf("resume")[i].type = "PLAN_EXECUTION_START" =>
                      /\ i = 2
                      /\ EventsOf("resume")[i].plan
                             = invocation["initial"].plan
               /\ EventsOf("resume")[i].type = "STEP_EXECUTION_END" =>
                      /\ i - 2 \in 1..Len(invocation["initial"].plan)
                      /\ EventsOf("resume")[i].detail
                             = invocation["initial"].plan[i - 2]
        /\ (/\ invocation["resume"].pc = "done"
            /\ \A i \in 1..Len(EventsOf("resume")) :
                   EventsOf("resume")[i].type # "ERROR") =>
               TypesOf("resume") =
                   <<"PLAN_APPROVED">>
                       \o CompleteExecution(invocation["initial"].plan)

\* an approved plan of two steps was executed to its end
C19_Witness ==
    /\ invocation["resume"].hitl_resume_type = "APPROVE"
    /\ invocation["resume"].pc = "done"
    /\ Len(invocation["initial"].plan) = 2
    /\ plan_events[Len(plan_events)].type = "PLAN_EXECUTION_END"
    /\ plan_events[Len(plan_events)].inv = "resume"

ResumeFetched == invocation["resume"].plan # NoPlan

\* C22: when the HITL timeout elapses with no resume, the initial call
\* yields PLAN_APPROVAL_TIMEOUT, not an ErrorResponse, deletes the entry
\* exactly once, yields no PLAN_EXECUTION_START and ends; an approval that
\* stalls is always eventually reclaimed.
C22_TimeoutReclaims ==
    /\ [](/\ store_calls["initial"].delete <= 1
          /\ Cardinality(PlanEventsOfType("PLAN_APPROVAL_TIMEOUT")) <= 1
          /\ store_calls["initial"].delete = 1 =>
                 PlanEventsOfType("PLAN_APPROVAL_TIMEOUT") # {}
          /\ (/\ PlanEventsOfType("PLAN_APPROVAL_TIMEOUT") # {}
              /\ invocation["initial"].pc = "done"
              /\ ~ResumeFetched) =>
                 /\ TypesOf("initial") = <<"PLAN_APPROVAL_PENDING",
                                           "PLAN_APPROVAL_TIMEOUT">>
                 /\ store_calls["initial"].delete = 1
                 /\ pending_plans = NoPlan)
    /\ (invocation["initial"].pc = "waiting") ~>
           (invocation["initial"].pc = "done" /\ pending_plans = NoPlan)
    /\ (invocation["initial"].pc = "waiting" /\ [](~ResumeFetched)) ~>
           (PlanEventsOfType("PLAN_APPROVAL_TIMEOUT") # {})

\* the approval timed out and no resume was ever requested
C22_Witness ==
    /\ PlanEventsOfType("PLAN_APPROVAL_TIMEOUT") # {}
    /\ invocation["initial"].pc = "done"
    /\ invocation["resume"].pc = "idle"
    /\ store_calls["initial"].delete = 1

\* C23: a resume (APPROVE, EDIT or CANCEL) for a request id without a
\* pending entry fails with a key error that is not PLAN_CANCELLED: the call
\* yields that error and nothing else, no PLAN_APPROVED, PLAN_EDITED,
\* PLAN_CANCELLED or PLAN_EXECUTION_START, executes nothing and deletes
\* nothing.
C23_AbsentEntryFails ==
    (/\ store_calls["resume"].get = 1
     /\ ~ResumeFetched) =>
        /\ invocation["resume"].pc = "done"
        /\ Len(EventsOf("resume")) = 1
        /\ EventsOf("resume")[1].type = "ERROR"
        /\ EventsOf("resume")[1].detail = "No pending plan found"
        /\ \A i \in PlanEventIds :
               plan_events[i].inv = "resume" =>
                   plan_events[i].type \notin
                       ResumeOutcomes \cup {"PLAN_EXECUTION_START",
                                            "STEP_EXECUTION_END",
                                            "PLAN_EXECUTION_END"}
        /\ store_calls["resume"].delete = 0
        /\ invocation["resume"].step = 0

\* an APPROVE arrived after the timeout had removed the entry
C23_Witness ==
    /\ store_calls["resume"].get = 1
    /\ ~ResumeFetched
    /\ invocation["resume"].hitl_resume_type = "APPROVE"
    /\ store_calls["initial"].delete = 1
    /\ invocation["resume"].pc = "done"

\* C24: when plan generation fails, invoke yields exactly one event, an
\* ErrorResponse, and ends without PLAN_GENERATION_END or any execution
\* event: "Planning failed: <reason>" with the stated reason for a
\* PlanningFailedException, "An unexpected error occurred during planning"
\* for any other exception.
C24_PlanningFailure ==
    invocation["initial"].raised # NoFailure =>
        /\ invocation["initial"].pc = "done"
        /\ Len(EventsOf("initial")) = 1
        /\ EventsOf("initial")[1].type = "ERROR"
        /\ EventsOf("initial")[1].detail =
               IF invocation["initial"].raised.type
                      = "PlanningFailedException"
               THEN PlanningFailedMessage(invocation["initial"].raised.message)
               ELSE "An unexpected error occurred during planning"
        /\ store_calls["initial"] = NoStoreCalls
        /\ invocation["initial"].step = 0

\* the planner refused with a reason of its own
C24_Witness ==
    /\ invocation["initial"].raised.type = "PlanningFailedException"
    /\ invocation["initial"].raised.message = "no agent can do this"
    /\ Len(EventsOf("initial")) = 1

\* the step ids of the step events a call yielded, in order
StepsRun(inv) ==
    LET e == SelectSeq(EventsOf(inv),
                       LAMBDA x : x.type = "STEP_EXECUTION_END")
    IN  [k \in 1..Len(e) |-> e[k].detail]
StepErrorMessage == "An unexpected error occurred during step execution"

\* C25: during EXECUTE the steps run in plan order; an exception in step k
\* is reported as one ErrorResponse "An unexpected error occurred during
\* step execution" that is the last event of the stream: no later step is
\* started and PLAN_EXECUTION_END is not emitted; PLAN_EXECUTION_END is
\* emitted only after every step has completed.
C25_StepsInOrder ==
    \A inv \in Invocations :
        LET ev == EventsOf(inv)
            plan == invocation[inv].plan
        IN  /\ Len(StepsRun(inv)) <= Len(plan)
            /\ StepsRun(inv) = SubSeq(plan, 1, Len(StepsRun(inv)))
            /\ \A i \in 1..Len(ev) :
                   /\ (ev[i].type = "ERROR" /\ ev[i].detail = StepErrorMessage)
                          => /\ i = Len(ev)
                             /\ invocation[inv].pc = "done"
                             /\ Len(StepsRun(inv)) = invocation[inv].step - 1
                             /\ invocation[inv].step <= Len(plan)
                             /\ \A j \in 1..Len(ev) :
                                    ev[j].type # "PLAN_EXECUTION_END"
                   /\ ev[i].type = "PLAN_EXECUTION_END"
                          => /\ i = Len(ev)
                             /\ StepsRun(inv) = plan
                             /\ \A j \in 1..Len(ev) : ev[j].type # "ERROR"

\* the second step of a plan raised after the first had completed
C25_Witness ==
    \E inv \in Invocations :
        /\ invocation[inv].pc = "done"
        /\ invocation[inv].step = 2
        /\ Len(StepsRun(inv)) = 1
        /\ EventsOf(inv)[Len(EventsOf(inv))].detail = StepErrorMessage

\* the payload classes that end a TeamHandler stream
TerminalPayloads == {"InvokeResponse", "AbortResult", "ErrorResponse"}

\* C26: a final InvokeResponse, an AbortResult and an ErrorResponse can be
\* told apart by event type alone: events with different ones of these
\* payloads never carry the same event type.
C26_TerminalTypesDiffer ==
    \A i, j \in EventIds :
        (/\ events[i].payload \in TerminalPayloads
         /\ events[j].payload \in TerminalPayloads
         /\ events[i].payload # events[j].payload) =>
            events[i].type # events[j].type

\* the parent has a recorded AGENT result
HasResult(parent) ==
    \E k \in 1..Len(items) : /\ items[k].task_id = parent
                             /\ items[k].role = "AGENT"

ItemsOfTask(t) == {k \in 1..Len(conversation) : conversation[k].task_id = t}

\* C28: after any sequence of rounds, also when the manager assigns a task
\* id again, the Conversation holds at most one result item for each task
\* id.
C28_OneItemPerTask ==
    \A t \in TaskIds : Cardinality(ItemsOfTask(t)) <= 1

\* what the specification calls a field that is missing or not set
Unset(value) == value \in {Missing, None, ""}
\* the five cases in which a construction is to be rejected
RejectedCase(kw) ==
    \/ kw.mcp_plugin_type = "stdio" /\ Unset(kw.mcp_command)
    \/ kw.mcp_plugin_type = "sse" /\ Unset(kw.mcp_url)
    \/ ~Unset(kw.mcp_plugin_type) /\ ~Unset(kw.openapi_json_path)
    \/ Unset(kw.mcp_plugin_type) /\ Unset(kw.openapi_json_path)
    \/ ~Unset(kw.mcp_plugin_type) /\ kw.mcp_plugin_type \notin {"stdio", "sse"}
\* C29: constructing a RemotePlugin ends with a validation error exactly in
\* the five listed cases (stdio without mcp_command, sse without mcp_url,
\* mcp_plugin_type together with openapi_json_path, neither of the two,
\* an mcp_plugin_type other than stdio and sse) and is accepted otherwise.
C29_RejectedIff ==
    plugin # NotConstructed =>
        (plugin.status = "ValidationError" <=> RejectedCase(kwargs))

\* the terminal events execute_task_sse has yielded so far, in any round
ExecutorTerminalEvents ==
    UNION {TerminalEventsOfRound(r) : r \in 0..round_no}
\* execute_task_sse is running and has not yet yielded its terminal event
TaskBeforeTerminalEvent ==
    pc \in {"task_start", "task_wait", "task_yield", "task_join"}
\* C30: in an ASSIGN_NEW_TASK round the result of the task is appended to
\* the Conversation only after the terminal event of the task has been
\* emitted: the Conversation never holds more results than terminal events
\* were emitted, and none for a task that has not emitted its own yet.
C30_ResultAfterTerminalEvent ==
    /\ Len(conversation) <= Cardinality(ExecutorTerminalEvents)
    /\ TaskBeforeTerminalEvent =>
           Len(conversation) = Cardinality(ExecutorTerminalEvents)
\* a task has emitted FINAL_RESPONSE and its result has been appended
C30_Witness ==
    /\ pc = "round_end"
    /\ Len(conversation) >= 1
    /\ Cardinality(ExecutorTerminalEvents) = Len(conversation)
    /\ events[Len(events)].type = "FINAL_RESPONSE"
    /\ conversation[Len(conversation)].result = events[Len(events)].detail

\* the max-rounds event has been emitted
MaxRoundsEmitted ==
    \E i \in EventIds : /\ events[i].payload = "AbortResult"
                         /\ events[i].prefix = "Max rounds surpassed: "
\* C31: in the ASSIGN_NEW_TASK round that exhausts the budget the result is
\* appended before the round-limit check runs and before the max-rounds
\* event is emitted: when the check is about to run, and from the max-rounds
\* event on, the Conversation holds a result for every terminal event that
\* execute_task_sse emitted.
C31_AppendBeforeLimitCheck ==
    (pc = "round_end" \/ MaxRoundsEmitted) =>
        Len(conversation) = Cardinality(ExecutorTerminalEvents)
\* the budget was exhausted by a round whose task returned a result, and the
\* result is in the Conversation
C31_Witness ==
    /\ MaxRoundsEmitted
    /\ Len(events) >= 2
    /\ events[Len(events) - 1].type = "FINAL_RESPONSE"
    /\ events[Len(events) - 1].origin = "executor"
    /\ Len(conversation) >= 1
    /\ conversation[Len(conversation)].result = events[Len(events) - 1].detail

\* this step yields a keepalive of the given heartbeat loop
KeepaliveEmitted(origin) ==
    /\ Len(events') = Len(events) + 1
    /\ events'[Len(events')].type = "keepalive"
    /\ events'[Len(events')].origin = origin
\* C32: in both heartbeat loops a keepalive is forwarded only while the call
\* is outstanding: no step yields a keepalive when the agent call,
\* respectively the manager call, has already completed, so a keepalive
\* enqueued around the completion is never emitted.
C32_KeepaliveOnlyWhileOutstanding ==
    [][/\ KeepaliveEmitted("executor") => perform_task.state = "pending"
       /\ KeepaliveEmitted("manager") =>
              determine_action_task.state = "pending"]_vars

\* the keepalives of one heartbeat loop, by position
Keepalives(origin) ==
    {i \in EventIds : events[i].type = "keepalive"
                      /\ events[i].origin = origin}
\* C33: events reach the consumer in the order of the rounds that produce
\* them; every keepalive of a task comes after the AgentRequestEvent of that
\* task and before its terminal event, and every keepalive of a manager call
\* comes before the manager-response event of that round.
C33_KeepalivesInOrder ==
    /\ \A i, j \in EventIds : i < j => events[i].round <= events[j].round
    /\ \A i \in Keepalives("executor") :
           /\ \E j \in 1..(i - 1) :
                  /\ events[j].round = events[i].round
                  /\ events[j].type = "AGENT_REQUEST"
           /\ \A j \in TerminalEventsOfRound(events[i].round) : i < j
    /\ \A i \in Keepalives("manager") :
           \A j \in EventIds :
               (/\ events[j].round = events[i].round
                /\ events[j].type = "MANAGER_RESPONSE") => i < j
\* a task yielded a keepalive and then its terminal event
C33_Witness ==
    \E i \in Keepalives("executor") :
        \E j \in TerminalEventsOfRound(events[i].round) : i < j

\* the scope of one manager call (the try/finally of invoke) is open
ManagerScopeOpen ==
    pc \in {"manager_wait", "manager_yield", "manager_join", "manager_error"}
\* execute_task_sse has created its heartbeat and has not yet left its
\* try/finally; an abandoned generator is still suspended inside it
TaskScopeOpen ==
    pc \in {"task_wait", "task_yield", "task_join", "task_final", "abandoned"}
Stopped(heartbeat) == heartbeat \in {"none", "cancelled"}
\* C34: whenever the scope owning a heartbeat has exited, by success, by
\* failure of the call or by cancellation or closing of the generator, the
\* heartbeat has been cancelled and awaited: outside the scope no heartbeat
\* task is running, so none can enqueue a keepalive.
C34_HeartbeatStoppedAtExit ==
    /\ ~ManagerScopeOpen => Stopped(manager_keepalive_task)
    /\ ~TaskScopeOpen => Stopped(keepalive_task)
\* a scope was left by cancellation with its heartbeat running until then
C34_Witness ==
    /\ pc = "closed"
    /\ beats = 0
    /\ \/ perform_task.state = "pending" /\ keepalive_task = "cancelled"
       \/ /\ determine_action_task.state = "pending"
          /\ manager_keepalive_task = "cancelled"

\* a remote call is still outstanding
CallOutstanding ==
    \/ determine_action_task.state = "pending"
    \/ perform_task.state = "pending"
\* C35: when the consumer disconnects while a remote call is outstanding,
\* the cancellation reaches that call as well as its heartbeat: after the
\* generator has exited neither the call task nor a heartbeat task is still
\* running.
C35_CancellationPropagates ==
    pc = "closed" =>
        /\ ~CallOutstanding
        /\ Stopped(manager_keepalive_task)
        /\ Stopped(keepalive_task)

\* the names a list of servers defines
NamesOf(servers) == {servers[k].name : k \in 1..Len(servers)}
\* the entries of a list, as a set
EntriesOf(servers) == {servers[k] : k \in 1..Len(servers)}
\* C36: get_agent_mcp_servers merges the two lists so that agent-specific
\* entries override global ones: for a name both lists define, the result
\* holds only the agent-specific entry; when only one list is non-empty the
\* result is that list, and when both are empty it is None.
C36_AgentOverridesGlobal ==
    merged.called =>
        LET global_mcp == spec_mcp_servers.servers
            agent_mcp == AgentMcp(spec_agents, for_agent, 1)
            result == merged.value
        IN  /\ (global_mcp # <<>> /\ agent_mcp # <<>>) =>
                   /\ ~result.none
                   /\ EntriesOf(agent_mcp) \subseteq EntriesOf(result.servers)
                   /\ \A e \in EntriesOf(result.servers) :
                          \/ e \in EntriesOf(agent_mcp)
                          \/ /\ e \in EntriesOf(global_mcp)
                             /\ e.name \notin NamesOf(agent_mcp)
            /\ (global_mcp = <<>> /\ agent_mcp # <<>>) =>
                   result = Some(agent_mcp)
            /\ (global_mcp # <<>> /\ agent_mcp = <<>>) =>
                   result = Some(global_mcp)
            /\ (global_mcp = <<>> /\ agent_mcp = <<>>) => result = NoneList

\* the manager assigned a task to an agent the TaskExecutor does not know
\* and the round is about to execute it
UnregisteredAssignment ==
    /\ pc = "match"
    /\ manager_output.next_action = "ASSIGN_NEW_TASK"
    /\ manager_output.agent_name \notin RegisteredAgents
\* C37: an ASSIGN_NEW_TASK naming an unregistered agent emits no
\* AgentRequestEvent and starts no remote call and no heartbeat; exactly one
\* event, an ErrorResponse, is emitted for the round and the Conversation is
\* left unchanged.
C37_UnregisteredAgent ==
    [][UnregisteredAssignment =>
          /\ Len(events') = Len(events) + 1
          /\ SubSeq(events', 1, Len(events)) = events
          /\ events'[Len(events')].payload = "ErrorResponse"
          /\ events'[Len(events')].round = round_no
          /\ conversation' = conversation
          /\ perform_task' = perform_task
          /\ keepalive_task' = keepalive_task
          /\ pc' = "round_end"]_vars
\* a round that named an unregistered agent ended with the ErrorResponse of
\* _execute_task and no AGENT_REQUEST
C37_Witness ==
    /\ pc = "round_end"
    /\ manager_output.next_action = "ASSIGN_NEW_TASK"
    /\ manager_output.agent_name \notin RegisteredAgents
    /\ LastEvent.payload = "ErrorResponse"
    /\ LastEvent.origin = "execute_task"
    /\ \A i \in EventIds :
           events[i].round = round_no => events[i].type # "AGENT_REQUEST"

\* the last call was initialize and none of its attempts succeeded
InitializeFailed ==
    /\ client_pc = "idle"
    /\ client_result.call = "initialize"
    /\ ~client_result.was_initialized
    /\ ~initialized
WrappedFailures == {"MCPTimeoutError", "MCPConnectionError"}
\* C38: initialize makes at most max_retries attempts per call and stops at
\* the first success; on an initialized client it makes none; when every
\* attempt fails it raises the wrapped last failure iff graceful_degradation
\* is false, and otherwise returns with the client not initialized and the
\* last error recorded.
C38_InitializeRetries ==
    /\ connection_attempts <= mcp_max_retries
    /\ client_pc \in {"loop", "sleep"} => ~initialized
    /\ (client_result.call = "initialize" /\ client_result.was_initialized)
           => client_result.attempts = 0
    /\ InitializeFailed =>
           /\ client_result.attempts = mcp_max_retries
           /\ IF graceful_degradation
              THEN /\ client_result.outcome = "returned"
                   /\ last_error \in WrappedFailures
              ELSE /\ last_error \in WrappedFailures
                   /\ client_result.outcome = "raised " \o last_error

\* C39: between two calls of the client, a session that is not None implies
\* that the client is initialized, and list_tools never calls the server
\* through a session while the client is not initialized.
C39_SessionImpliesInitialized ==
    /\ (client_pc = "idle" /\ session # 0) => initialized
    /\ (client_result.call = "list_tools" /\ client_result.session # 0)
           => client_result.was_initialized

\* C40: the client holds at most one entered and not exited connection
\* context at any time, and after cleanup no connection context and no
\* session it opened remains open.
C40_OneOpenContext ==
    /\ Cardinality(entered_contexts) <= 1
    /\ (client_pc = "idle" /\ client_result.call = "cleanup") =>
           /\ entered_contexts = {}
           /\ entered_sessions = {}

====
